---- MODULE Spec2Model ----
(***************************************************************************)
(* Model of the invoice reconciliation core of PythonIMS_InvoiceToJson:    *)
(*   - menu_cache.py: MenuItemCache (process-wide singleton) and the       *)
(*     module functions get_cached_menu_items / get_cache_stats /          *)
(*     invalidate_cache / clear_cache, as threads stepping through the     *)
(*     individual reads and writes of the shared fields;                   *)
(*   - fuzzy_matcher.py: match_ocr_products, the per-line-item loop.       *)
(***************************************************************************)
EXTENDS Integers, Sequences, FiniteSets, TLC

VARIABLES
    \* ---- MenuItemCache singleton (menu_cache.py) ----
    cache_data,        \* self._cache_data: NoData or [items, count]
    cache_timestamp,   \* self._cache_timestamp
    load_count,        \* self._load_count
    lock,              \* MenuItemCache._lock: holder thread, or NoThread
    now,               \* time.time()
    \* ---- one API call per thread ----
    pc,                \* position of each thread in its current call
    force_refresh,     \* argument of get_cached_menu_items
    items,             \* local `items` of get_cached_menu_items (fetched rows)
    result,            \* what the call returned or raised
    fetch_calls,       \* times the current call has invoked fetch_function
    callers,           \* the threads that use the cache API in this run
    pre,               \* history: the cache fields when the current call began
                       \* (kept when there is a single caller, for whom
                       \* "before the call" is one state)
    \* ---- one call of match_ocr_products (fuzzy_matcher.py) ----
    args,              \* menu_items, top_k, score_cutoff, connection, supplier_name
    ocr_products,      \* the product dicts of the argument list, changed in place
    given,             \* history: ocr_products as it was passed in
    ocr_mapped,        \* the table [docUpload].[OCRMappedData] of the database
    matcher,           \* the FuzzyMatcher: _cache and _cache_timestamp
    enhanced_products, \* the list being returned: positions in ocr_products
    m_pc,              \* position in match_ocr_products
    idx,               \* position of the for loop in ocr_products
    sku_query,         \* local sku_query
    mapped_match,      \* local mapped_match
    m_exc,             \* the exception match_ocr_products raised, if any
    seen,              \* history per product: overlay outcome, match_single calls
    \* ---- the other components, one record each ----
    ctor,              \* the class MenuItemCache: _instance, _initialized, _ttl,
                       \* and the constructor call in progress
    query,             \* a direct call of FuzzyMatcher.match_single or
                       \* get_best_match: arguments, position, outcome
    prep,              \* preprocess_text applied to a string, and again to
                       \* its own output
    retry,             \* a RetryPolicy: its config, retry_count, retry_log, and
                       \* the execute_with_retry call in progress
    parse,             \* parse_number_safe applied to a value
    hist,              \* history of the cache's refreshes: which fetch the
                       \* cached data came from, relative to an invalidation
                       \* and to the other refresh in flight
    tokens             \* the token usage tables and the log_token_usage calls in progress

cacheVars == <<cache_data, cache_timestamp, load_count, lock, now>>
threadVars == <<pc, force_refresh, items, result, fetch_calls, callers, pre>>
matchVars == <<args, ocr_products, given, ocr_mapped, matcher, enhanced_products,
               m_pc, idx, sku_query, mapped_match, m_exc, seen>>
vars == <<cache_data, cache_timestamp, load_count, lock, now,
          pc, force_refresh, items, result, fetch_calls, callers, pre,
          args, ocr_products, given, ocr_mapped, matcher, enhanced_products,
          m_pc, idx, sku_query, mapped_match, m_exc, seen,
          ctor, query, prep, retry, parse, hist, tokens>>
libVars == <<ctor, query, prep, retry, parse, tokens>>

-----------------------------------------------------------------------------
(* Bounds of the model *)

\* time.time() when the process starts (seconds); any value above the TTL
Epoch == 10000
\* how many times the clock may advance
MaxTicks == 2
\* how many loads the cache may perform
MaxLoads == 2

(* Program constants *)

\* MenuItemCache.__init__(ttl=3600)
DefaultTTL == 3600

Threads == {1, 2}
NoThread == 0

-----------------------------------------------------------------------------
(* Values *)

\* Python strings are sequences of characters; None is a value of its own.
Str(s) == [k |-> "str", s |-> s, n |-> 0]
PyInt(n) == [k |-> "int", s |-> <<>>, n |-> n]
NoneVal == [k |-> "none", s |-> <<>>, n |-> 0]
\* a NULL column whose values are otherwise plain codes
Null == "<null>"

NoData == [items |-> <<>>, count |-> -1]

\* A catalog row: description, primary code and the further columns of the
\* query (none for a 2-column row, one for the 3-column query of
\* test_cache_fix.py, five for the 7-column query of api.py: menucode,
\* baseunit, confactor, altunit, vat).
Row(d, m, rest) == [desca |-> d, mcode |-> m, rest |-> rest]
Arity(row) == 2 + Len(row.rest)

RECURSIVE LStrip(_)
LStrip(s) == IF s # <<>> /\ Head(s) = " " THEN LStrip(Tail(s)) ELSE s

RECURSIVE RStrip(_)
RStrip(s) ==
    IF s # <<>> /\ s[Len(s)] = " " THEN RStrip(SubSeq(s, 1, Len(s) - 1)) ELSE s

\* str.strip()
Strip(s) == RStrip(LStrip(s))

\* Python truthiness of `d and d.strip()` for a description
Truthy(d) == d.k = "str" /\ d.s # <<>>

\* valid_items = [(d, m) for d, m in menu_items if d and d.strip()]
\* (unpacking a row into (d, m) raises ValueError unless it has two columns)
Unpackable(rows) == \A i \in 1..Len(rows) : Arity(rows[i]) = 2
ValidItems(rows) ==
    SelectSeq(rows, LAMBDA row : Truthy(row.desca) /\ Strip(row.desca.s) # <<>>)

\* self._cache_data = {'items': valid_items, 'count': len(valid_items)}
Snapshot(valid_items) == [items |-> valid_items, count |-> Len(valid_items)]

\* is_valid(), second half: age = time.time() - self._cache_timestamp; age < ttl
Fresh(t_now, t_stamp) == t_now - t_stamp < DefaultTTL

-----------------------------------------------------------------------------
(* What fetch_function may return *)

\* two-column rows (mock_db_fetch), among them a blank and a None description;
\* three-column rows (test_cache_fix.py); seven-column rows (api.py)
FetchResults ==
    { <<Row(Str(<<"a">>), "M1", <<>>)>>,
      <<Row(Str(<<" ">>), "M3", <<>>), Row(Str(<<"a">>), "M1", <<>>),
        Row(NoneVal, "M4", <<>>), Row(Str(<<"b", " ">>), "M2", <<>>)>>,
      <<Row(Str(<<"a">>), "M1", <<"MENU1">>)>>,
      <<Row(Str(<<"a">>), "M1", <<"MENU1", "PCS", PyInt(12), "CASE", PyInt(1)>>)>> }

-----------------------------------------------------------------------------
(* Results of one API call *)

NoStats == [status |-> "", item_count |-> -1, load_count |-> -1]
NoResult == [op |-> "", path |-> "", exc |-> "", items |-> <<>>, stats |-> NoStats]

\* last: the call before the current one: which operation, how it ended, when
\* it began
CacheFields ==
    [data |-> cache_data, timestamp |-> cache_timestamp, loads |-> load_count, at |-> now,
     last |-> pre.last]
NoPre ==
    [data |-> NoData, timestamp |-> 0, loads |-> 0, at |-> 0,
     last |-> [op |-> "", path |-> "", exc |-> "", at |-> 0]]
RecordPre == pre' = IF Cardinality(callers) = 1 THEN CacheFields ELSE pre

TicksOf(t_now) == ((t_now - Epoch) \div DefaultTTL) + ((t_now - Epoch) % DefaultTTL)

Loading == {u \in Threads : pc[u] \in {"load_lock", "load_build", "load_ts", "load_cnt"}}

\* History kept for the refresh races (only when `on`): inv_done, an
\* invalidate_cache() has returned; after[t], the call of t began after that;
\* old_fetch[t], the fetch of t began before it; data_old, the cached data came
\* from such a fetch; stale[t], the call of t began after the invalidation and
\* returned cached data fetched before it; latest, the thread whose fetch
\* began last; data_latest, the cached data came from that fetch; overwrote,
\* data from an earlier fetch replaced data from a later one.
HistOff ==
    [on |-> FALSE, inv_done |-> FALSE, data_old |-> FALSE,
     after |-> [t \in Threads |-> FALSE], old_fetch |-> [t \in Threads |-> FALSE],
     stale |-> [t \in Threads |-> FALSE],
     latest |-> NoThread, data_latest |-> FALSE, overwrote |-> FALSE]

Track(h) == hist' = IF hist.on THEN h ELSE hist

InitCache ==
    /\ cache_data = NoData
    /\ cache_timestamp = 0
    /\ load_count = 0
    /\ lock = NoThread
    /\ now = Epoch
    /\ pc = [t \in Threads |-> "idle"]
    /\ force_refresh = [t \in Threads |-> FALSE]
    /\ items = [t \in Threads |-> <<>>]
    /\ result = [t \in Threads |-> NoResult]
    /\ fetch_calls = [t \in Threads |-> 0]
    /\ pre = NoPre

Goto(t, label) == pc' = [pc EXCEPT ![t] = label]

Raise(t, exc) ==
    /\ pc' = [pc EXCEPT ![t] = "raised"]
    /\ result' = [result EXCEPT ![t].exc = exc]

-----------------------------------------------------------------------------
(* get_cached_menu_items(fetch_function, force_refresh) *)

\* A caller enters get_cached_menu_items.
CallGetCached(t) ==
    /\ t \in callers
    /\ pc[t] = "idle"
    /\ \E f \in BOOLEAN : force_refresh' = [force_refresh EXCEPT ![t] = f]
    /\ result' = [result EXCEPT ![t] = [NoResult EXCEPT !.op = "get_cached"]]
    /\ RecordPre
    /\ Goto(t, "gc_start")
    /\ UNCHANGED <<cacheVars, items, fetch_calls, callers>>
    /\ Track([hist EXCEPT !.after[t] = hist.inv_done])
    /\ UNCHANGED <<matchVars, libVars>>

\* line 190: `not force_refresh and _global_cache.is_valid()`;
\* is_valid() line 114 reads self._cache_data
GcStart(t) ==
    /\ pc[t] = "gc_start"
    /\ IF force_refresh[t] \/ cache_data = NoData
         THEN Goto(t, "fetch")
         ELSE Goto(t, "gc_valid_ts")
    /\ UNCHANGED <<cacheVars, force_refresh, items, result, fetch_calls, callers, pre>>
    /\ UNCHANGED <<matchVars, libVars, hist>>

\* is_valid() lines 117-118 read the clock and self._cache_timestamp
GcValidTs(t) ==
    /\ pc[t] = "gc_valid_ts"
    /\ IF Fresh(now, cache_timestamp)
         THEN Goto(t, "get_data")
         ELSE Goto(t, "fetch")
    /\ UNCHANGED <<cacheVars, force_refresh, items, result, fetch_calls, callers, pre>>
    /\ UNCHANGED <<matchVars, libVars, hist>>

\* line 191 -> MenuItemCache.get() line 106 -> is_valid() line 114
GetData(t) ==
    /\ pc[t] = "get_data"
    /\ IF cache_data = NoData
         THEN Goto(t, "fetch")          \* get() returns None, line 192 fails
         ELSE Goto(t, "get_ts")
    /\ UNCHANGED <<cacheVars, force_refresh, items, result, fetch_calls, callers, pre>>
    /\ UNCHANGED <<matchVars, libVars, hist>>

\* MenuItemCache.get() -> is_valid() lines 117-118
GetTs(t) ==
    /\ pc[t] = "get_ts"
    /\ IF Fresh(now, cache_timestamp)
         THEN Goto(t, "get_items")
         ELSE Goto(t, "fetch")          \* get() returns None
    /\ UNCHANGED <<cacheVars, force_refresh, items, result, fetch_calls, callers, pre>>
    /\ UNCHANGED <<matchVars, libVars, hist>>

\* MenuItemCache.get() line 110: return self._cache_data['items'];
\* subscripting None raises TypeError. Lines 192-194 return the list.
GetItems(t) ==
    /\ pc[t] = "get_items"
    /\ IF cache_data = NoData
         THEN Raise(t, "TypeError")
         ELSE /\ Goto(t, "returned")
              /\ result' = [result EXCEPT ![t].path = "hit",
                                          ![t].items = cache_data.items]
    /\ UNCHANGED <<cacheVars, force_refresh, items, fetch_calls, callers, pre>>
    /\ Track([hist EXCEPT !.stale[t] = hist.after[t] /\ hist.data_old])
    /\ UNCHANGED <<matchVars, libVars>>

\* Fetch, had the stale snapshot been dropped before fetching
FetchAfterClear(t) ==
    /\ pc[t] = "fetch"
    /\ load_count + Cardinality(Loading) < MaxLoads
    /\ fetch_calls' = [fetch_calls EXCEPT ![t] = @ + 1]
    /\ cache_data' = NoData
    /\ cache_timestamp' = 0
    /\ \/ /\ \E rows \in FetchResults : items' = [items EXCEPT ![t] = rows]
          /\ Goto(t, "load_lock")
          /\ Track([hist EXCEPT !.old_fetch[t] = ~hist.inv_done, !.latest = t])
          /\ result' = [result EXCEPT ![t].path = "miss"]
       \/ /\ pc' = [pc EXCEPT ![t] = "raised"]
          /\ result' = [result EXCEPT ![t].path = "miss", ![t].exc = "FetchError"]
          /\ UNCHANGED <<items, hist>>
    /\ UNCHANGED <<load_count, lock, now, force_refresh, callers, pre>>
    /\ UNCHANGED <<matchVars, libVars>>

\* line 200: items = fetch_function(); it returns rows or raises
Fetch(t) ==
    /\ pc[t] = "fetch"
    /\ load_count + Cardinality(Loading) < MaxLoads
    /\ fetch_calls' = [fetch_calls EXCEPT ![t] = @ + 1]
    /\ \/ /\ \E rows \in FetchResults : items' = [items EXCEPT ![t] = rows]
          /\ Goto(t, "load_lock")
          /\ Track([hist EXCEPT !.old_fetch[t] = ~hist.inv_done, !.latest = t])
          /\ result' = [result EXCEPT ![t].path = "miss"]
       \/ /\ pc' = [pc EXCEPT ![t] = "raised"]
          /\ result' = [result EXCEPT ![t].path = "miss", ![t].exc = "FetchError"]
          /\ UNCHANGED <<items, hist>>
    /\ UNCHANGED <<cacheVars, force_refresh, callers, pre>>
    /\ UNCHANGED <<matchVars, libVars>>

\* line 206 -> load(items, force=True) line 75: with self._lock
LoadLock(t) ==
    /\ pc[t] = "load_lock"
    /\ lock = NoThread
    /\ lock' = t
    /\ Goto(t, "load_build")
    /\ UNCHANGED <<cache_data, cache_timestamp, load_count, now,
                   force_refresh, items, result, fetch_calls, callers, pre>>
    /\ UNCHANGED <<matchVars, libVars, hist>>

\* LoadBuild, had load() refilled the existing dict's list in place
LoadBuildInPlace(t) ==
    /\ pc[t] = "load_build"
    /\ IF Unpackable(items[t])
         THEN /\ cache_data' = IF cache_data = NoData
                                 THEN Snapshot(ValidItems(items[t]))
                                 ELSE [cache_data EXCEPT !.items = ValidItems(items[t])]
              /\ Goto(t, "load_ts")
              /\ Track([hist EXCEPT !.data_old = hist.old_fetch[t],
                                    !.data_latest = (hist.latest = t),
                                    !.overwrote = @ \/ (cache_data # NoData /\ hist.data_latest
                                                        /\ hist.latest # t)])
              /\ UNCHANGED <<lock, result>>
         ELSE /\ Raise(t, "ValueError")
              /\ lock' = NoThread
              /\ UNCHANGED <<cache_data, hist>>
    /\ UNCHANGED <<cache_timestamp, load_count, now,
                   force_refresh, items, fetch_calls, callers, pre>>
    /\ UNCHANGED <<matchVars, libVars>>

\* load() lines 83-88: build valid_items, then bind self._cache_data to the
\* finished dict. A row that does not unpack into (d, m) raises ValueError out
\* of the `with` block, which releases the lock.
LoadBuild(t) ==
    /\ pc[t] = "load_build"
    /\ IF Unpackable(items[t])
         THEN /\ cache_data' = Snapshot(ValidItems(items[t]))
              /\ Goto(t, "load_ts")
              /\ Track([hist EXCEPT !.data_old = hist.old_fetch[t],
                                    !.data_latest = (hist.latest = t),
                                    !.overwrote = @ \/ (cache_data # NoData /\ hist.data_latest
                                                        /\ hist.latest # t)])
              /\ UNCHANGED <<lock, result, callers, pre>>
         ELSE /\ Raise(t, "ValueError")
              /\ lock' = NoThread
              /\ UNCHANGED <<cache_data, hist>>
    /\ UNCHANGED <<cache_timestamp, load_count, now,
                   force_refresh, items, fetch_calls, callers, pre>>
    /\ UNCHANGED <<matchVars, libVars>>

\* load() line 90: self._cache_timestamp = time.time()
LoadTs(t) ==
    /\ pc[t] = "load_ts"
    /\ cache_timestamp' = now
    /\ Goto(t, "load_cnt")
    /\ UNCHANGED <<cache_data, load_count, lock, now,
                   force_refresh, items, result, fetch_calls, callers, pre>>
    /\ UNCHANGED <<matchVars, libVars, hist>>

\* load() line 91: self._load_count += 1, end of the `with` block;
\* get_cached_menu_items line 208: return items
LoadCnt(t) ==
    /\ pc[t] = "load_cnt"
    /\ load_count' = load_count + 1
    /\ lock' = NoThread
    /\ Goto(t, "returned")
    /\ result' = [result EXCEPT ![t].items = items[t]]
    /\ UNCHANGED <<cache_data, cache_timestamp, now,
                   force_refresh, items, fetch_calls, callers, pre>>
    /\ UNCHANGED <<matchVars, libVars, hist>>

-----------------------------------------------------------------------------
(* get_cache_stats() -> MenuItemCache.get_stats() *)

CallGetStats(t) ==
    /\ t \in callers
    /\ pc[t] = "idle"
    /\ result' = [result EXCEPT ![t] = [NoResult EXCEPT !.op = "get_stats"]]
    /\ RecordPre
    /\ Goto(t, "st_start")
    /\ UNCHANGED <<cacheVars, force_refresh, items, fetch_calls, callers>>
    /\ UNCHANGED <<matchVars, libVars, hist>>

\* get_stats() lines 122-129: the 'empty' record when self._cache_data is None
StStart(t) ==
    /\ pc[t] = "st_start"
    /\ IF cache_data = NoData
         THEN /\ Goto(t, "returned")
              /\ result' = [result EXCEPT ![t].stats =
                    [status |-> "empty", item_count |-> 0,
                     load_count |-> load_count]]
         ELSE /\ Goto(t, "st_status")
              /\ UNCHANGED result
    /\ UNCHANGED <<cacheVars, force_refresh, items, fetch_calls, callers, pre>>
    /\ UNCHANGED <<matchVars, libVars, hist>>

\* get_stats() lines 131-133: 'valid' if self.is_valid() else 'expired'
\* (age_seconds and expires_in, computed from the same reads, are not kept)
StStatus(t) ==
    /\ pc[t] = "st_status"
    /\ result' = [result EXCEPT ![t].stats.status =
            IF cache_data # NoData /\ Fresh(now, cache_timestamp)
              THEN "valid" ELSE "expired"]
    /\ Goto(t, "st_count")
    /\ UNCHANGED <<cacheVars, force_refresh, items, fetch_calls, callers, pre>>
    /\ UNCHANGED <<matchVars, libVars, hist>>

\* get_stats() lines 134-136: self._cache_data['count'] (TypeError when the
\* data has been cleared since line 122), then self._load_count
StCount(t) ==
    /\ pc[t] = "st_count"
    /\ IF cache_data = NoData
         THEN Raise(t, "TypeError")
         ELSE /\ Goto(t, "returned")
              /\ result' = [result EXCEPT ![t].stats.item_count = cache_data.count,
                                          ![t].stats.load_count = load_count]
    /\ UNCHANGED <<cacheVars, force_refresh, items, fetch_calls, callers, pre>>
    /\ UNCHANGED <<matchVars, libVars, hist>>

-----------------------------------------------------------------------------
(* invalidate_cache() -> MenuItemCache.invalidate() *)

CallInvalidate(t) ==
    /\ t \in callers
    /\ pc[t] = "idle"
    /\ result' = [result EXCEPT ![t] = [NoResult EXCEPT !.op = "invalidate"]]
    /\ RecordPre
    /\ Goto(t, "inv_lock")
    /\ UNCHANGED <<cacheVars, force_refresh, items, fetch_calls, callers>>
    /\ UNCHANGED <<matchVars, libVars, hist>>

\* invalidate() line 143: with self._lock
InvLock(t) ==
    /\ pc[t] = "inv_lock"
    /\ lock = NoThread
    /\ lock' = t
    /\ Goto(t, "inv_write")
    /\ UNCHANGED <<cache_data, cache_timestamp, load_count, now,
                   force_refresh, items, result, fetch_calls, callers, pre>>
    /\ UNCHANGED <<matchVars, libVars, hist>>

\* InvWrite, had invalidate() dropped the data as clear() does
InvWriteClearing(t) ==
    /\ pc[t] = "inv_write"
    /\ cache_data' = NoData
    /\ cache_timestamp' = 0
    /\ lock' = NoThread
    /\ Goto(t, "returned")
    /\ UNCHANGED <<load_count, now,
                   force_refresh, items, result, fetch_calls, callers, pre>>
    /\ Track([hist EXCEPT !.inv_done = TRUE])
    /\ UNCHANGED <<matchVars, libVars>>

\* invalidate() line 144: self._cache_timestamp = 0, end of the `with` block
InvWrite(t) ==
    /\ pc[t] = "inv_write"
    /\ cache_timestamp' = 0
    /\ lock' = NoThread
    /\ Goto(t, "returned")
    /\ UNCHANGED <<cache_data, load_count, now,
                   force_refresh, items, result, fetch_calls, callers, pre>>
    /\ Track([hist EXCEPT !.inv_done = TRUE])
    /\ UNCHANGED <<matchVars, libVars>>

-----------------------------------------------------------------------------
(* clear_cache() -> MenuItemCache.clear() *)

CallClear(t) ==
    /\ t \in callers
    /\ pc[t] = "idle"
    /\ result' = [result EXCEPT ![t] = [NoResult EXCEPT !.op = "clear"]]
    /\ RecordPre
    /\ Goto(t, "clr_lock")
    /\ UNCHANGED <<cacheVars, force_refresh, items, fetch_calls, callers>>
    /\ UNCHANGED <<matchVars, libVars, hist>>

\* clear() line 149: with self._lock
ClrLock(t) ==
    /\ pc[t] = "clr_lock"
    /\ lock = NoThread
    /\ lock' = t
    /\ Goto(t, "clr_data")
    /\ UNCHANGED <<cache_data, cache_timestamp, load_count, now,
                   force_refresh, items, result, fetch_calls, callers, pre>>
    /\ UNCHANGED <<matchVars, libVars, hist>>

\* clear() line 150: self._cache_data = None
ClrData(t) ==
    /\ pc[t] = "clr_data"
    /\ cache_data' = NoData
    /\ Goto(t, "clr_ts")
    /\ UNCHANGED <<cache_timestamp, load_count, lock, now,
                   force_refresh, items, result, fetch_calls, callers, pre>>
    /\ UNCHANGED <<matchVars, libVars, hist>>

\* clear() line 151: self._cache_timestamp = 0, end of the `with` block
ClrTs(t) ==
    /\ pc[t] = "clr_ts"
    /\ cache_timestamp' = 0
    /\ lock' = NoThread
    /\ Goto(t, "returned")
    /\ UNCHANGED <<cache_data, load_count, now,
                   force_refresh, items, result, fetch_calls, callers, pre>>
    /\ UNCHANGED <<matchVars, libVars, hist>>

-----------------------------------------------------------------------------
\* The call is over (returned or raised); the thread is free for the next one.
Finish(t) ==
    /\ pc[t] \in {"returned", "raised"}
    /\ Goto(t, "idle")
    /\ force_refresh' = [force_refresh EXCEPT ![t] = FALSE]
    /\ items' = [items EXCEPT ![t] = <<>>]
    /\ result' = [result EXCEPT ![t] = NoResult]
    /\ fetch_calls' = [fetch_calls EXCEPT ![t] = 0]
    /\ pre' = IF Cardinality(callers) = 1
                THEN [pre EXCEPT !.last = [op |-> result[t].op, path |-> result[t].path,
                                           exc |-> result[t].exc, at |-> pre.at]]
                ELSE pre
    /\ UNCHANGED <<cacheVars, callers>>
    /\ Track([hist EXCEPT !.after[t] = FALSE, !.old_fetch[t] = FALSE, !.stale[t] = FALSE])
    /\ UNCHANGED <<matchVars, libVars>>

\* time.time() advances: by a second, or by a whole TTL
Tick ==
    /\ TicksOf(now) < MaxTicks
    /\ \E d \in {1, DefaultTTL} : now' = now + d
    /\ UNCHANGED <<cache_data, cache_timestamp, load_count, lock, threadVars, matchVars, libVars, hist>>

CacheStep(t) ==
    \/ CallGetCached(t) \/ GcStart(t) \/ GcValidTs(t) \/ GetData(t) \/ GetTs(t)
    \/ GetItems(t) \/ Fetch(t) \/ LoadLock(t) \/ LoadBuild(t) \/ LoadTs(t)
    \/ LoadCnt(t)
    \/ CallGetStats(t) \/ StStart(t) \/ StStatus(t) \/ StCount(t)
    \/ CallInvalidate(t) \/ InvLock(t) \/ InvWrite(t)
    \/ CallClear(t) \/ ClrLock(t) \/ ClrData(t) \/ ClrTs(t)
    \/ Finish(t)

-----------------------------------------------------------------------------
(* fuzzy_matcher.py: preprocess_text *)

\* str.upper() on the characters of the model's alphabet
Upper(c) == CASE c = "a" -> "A" [] c = "b" -> "B" [] OTHER -> c

\* re.sub(r'[^A-Z0-9\s]', ' ', text), one character (\s: space and tab here)
Alnum(c) == IF c \in {"A", "B", "1", "0", " ", "\t"} THEN c ELSE " "

\* drops every whitespace character that is followed by whitespace or ends
\* the text, and leaves one space for each that remains
RECURSIVE Squeeze(_)
Squeeze(s) ==
    IF s = <<>> THEN <<>>
    ELSE IF Head(s) \in {" ", "\t"} /\ (Len(s) = 1 \/ s[2] \in {" ", "\t"})
           THEN Squeeze(Tail(s))
           ELSE <<IF Head(s) = "\t" THEN " " ELSE Head(s)>> \o Squeeze(Tail(s))

\* ' '.join(text.split())
JoinSplit(s) == LStrip(Squeeze(s))

\* preprocess_text without its last step, ' '.join(text.split())
preprocess_text_unjoined(text) ==
    IF ~Truthy(text) THEN <<>>
    ELSE [i \in 1..Len(text.s) |-> Alnum(Upper(text.s[i]))]

preprocess_text(text) ==
    IF ~Truthy(text) THEN <<>>
    ELSE JoinSplit([i \in 1..Len(text.s) |-> Alnum(Upper(text.s[i]))])

-----------------------------------------------------------------------------
(* fuzzy_matcher.py: FuzzyMatcher *)

\* FuzzyMatcher(cache_ttl=3600) in match_ocr_products
MatcherTTL == 3600

NoCache == [item_count |-> -1]

\* item[k] if len(item) > k else None, for the columns after mcode
CodeAt(row, k) == IF Len(row.rest) >= k THEN row.rest[k] ELSE Null
ValueAt(row, k) == IF Len(row.rest) >= k THEN row.rest[k] ELSE NoneVal

HasDesca(row) == Truthy(row.desca)

\* load_menu_items, had it filtered the descriptions but not the other columns
load_menu_items_unfiltered(menu_items) ==
    LET processed_items == SelectSeq(menu_items, HasDesca)
        n == Len(processed_items)
    IN  [ preprocessed_list |-> [i \in 1..n |-> preprocess_text(processed_items[i].desca)],
          original_list |-> [i \in 1..n |-> processed_items[i].desca],
          mcode_list |-> [i \in 1..Len(menu_items) |-> menu_items[i].mcode],
          menucode_list |-> [i \in 1..Len(menu_items) |-> CodeAt(menu_items[i], 1)],
          baseunit_list |-> [i \in 1..Len(menu_items) |-> CodeAt(menu_items[i], 2)],
          confactor_list |-> [i \in 1..Len(menu_items) |-> ValueAt(menu_items[i], 3)],
          altunit_list |-> [i \in 1..Len(menu_items) |-> CodeAt(menu_items[i], 4)],
          vat_list |-> [i \in 1..Len(menu_items) |-> ValueAt(menu_items[i], 5)],
          item_count |-> n ]

\* FuzzyMatcher.load_menu_items: the parallel lists of self._cache
load_menu_items(menu_items) ==
    LET processed_items == SelectSeq(menu_items, HasDesca)
        n == Len(processed_items)
    IN  [ preprocessed_list |-> [i \in 1..n |-> preprocess_text(processed_items[i].desca)],
          original_list |-> [i \in 1..n |-> processed_items[i].desca],
          mcode_list |-> [i \in 1..n |-> processed_items[i].mcode],
          menucode_list |-> [i \in 1..n |-> CodeAt(processed_items[i], 1)],
          baseunit_list |-> [i \in 1..n |-> CodeAt(processed_items[i], 2)],
          confactor_list |-> [i \in 1..n |-> ValueAt(processed_items[i], 3)],
          altunit_list |-> [i \in 1..n |-> CodeAt(processed_items[i], 4)],
          vat_list |-> [i \in 1..n |-> ValueAt(processed_items[i], 5)],
          item_count |-> n ]

\* FuzzyMatcher.is_cache_valid
is_cache_valid(m, t_now) ==
    m._cache # NoCache /\ t_now - m._cache_timestamp < MatcherTTL

\* Scores are held in thousandths (85000 is 85.0); round(score, 2) gives
\* hundredths (8500 is 85.0), a half going to the even neighbour.
Round2(raw) ==
    LET q == raw \div 10
        r == raw % 10
    IN  IF r < 5 THEN q
        ELSE IF r > 5 THEN q + 1
        ELSE IF q % 2 = 0 THEN q ELSE q + 1

\* rapidfuzz process.extract(query, choices, scorer, limit, score_cutoff):
\* the choices scoring at least score_cutoff, best score first, equal scores
\* in the order of the choices, at most `limit` of them.
Better(scores, i, j) == scores[i] > scores[j] \/ (scores[i] = scores[j] /\ i < j)

RECURSIVE Ranked(_, _)
Ranked(scores, S) ==
    IF S = {} THEN <<>>
    ELSE LET b == CHOOSE i \in S : \A j \in S \ {i} : Better(scores, i, j)
         IN  <<b>> \o Ranked(scores, S \ {b})

Extract(scores, limit, score_cutoff) ==
    LET all == Ranked(scores, {i \in DOMAIN scores : scores[i] >= score_cutoff})
    IN  SubSeq(all, 1, IF limit < Len(all) THEN limit ELSE Len(all))

\* `x if x is not None else ''`
CodeOrEmpty(c) == IF c = Null THEN "" ELSE c
ValueOrEmpty(v) == IF v = NoneVal THEN Str(<<>>) ELSE v

NoMatch ==
    [desca |-> NoneVal, mcode |-> "", menucode |-> "", baseunit |-> "",
     confactor |-> NoneVal, altunit |-> "", vat |-> NoneVal, score |-> -1, rank |-> 0]

\* match_single lines 266-291: one result dict
MatchRecord(cache, scores, i, rank) ==
    [desca |-> cache.original_list[i],
     mcode |-> cache.mcode_list[i],
     menucode |-> cache.menucode_list[i],
     baseunit |-> CodeOrEmpty(cache.baseunit_list[i]),
     confactor |-> ValueOrEmpty(cache.confactor_list[i]),
     altunit |-> CodeOrEmpty(cache.altunit_list[i]),
     vat |-> ValueOrEmpty(cache.vat_list[i]),
     score |-> Round2(scores[i]),
     rank |-> rank]

\* match_single lines 253-301 for a non-empty query, given the scorer's
\* scores of the query against preprocessed_list
match_single(cache, scores, limit, score_cutoff) ==
    LET matches == Extract(scores, limit, score_cutoff)
        results == [r \in 1..Len(matches) |-> MatchRecord(cache, scores, matches[r], r)]
    IN  [fuzzy_matches |-> results,
         best_match |-> IF results # <<>> THEN results[1] ELSE NoMatch]

\* What the scorer may return for one choice (thousandths)
RawScores == {59990, 60000, 69990, 70000, 84990, 84996, 85000}

\* The scorer is a function of the two strings: equal choices score equally.
ScoreVectors(cache) ==
    { sv \in [1..cache.item_count -> RawScores] :
        \A i, j \in 1..cache.item_count :
            cache.preprocessed_list[i] = cache.preprocessed_list[j] => sv[i] = sv[j] }

-----------------------------------------------------------------------------
(* fuzzy_matcher.py: match_ocr_products *)

Absent == [k |-> "absent", s |-> <<>>, n |-> 0]

EnrichmentKeys ==
    {"fuzzy_matches", "best_match", "match_confidence", "mapped_nature",
     "menuitem_vat", "isVAT"}

\* A product dict: the fields it arrives with (sku, and quantity standing for
\* the business fields), and the keys match_ocr_products adds (`keys` holds
\* the added keys that are present).
Product(sku, quantity) ==
    [sku |-> sku, quantity |-> quantity, keys |-> {},
     fuzzy_matches |-> <<>>, best_match |-> NoMatch, match_confidence |-> "",
     mapped_nature |-> "", menuitem_vat |-> NoneVal, isVAT |-> -1]

\* product.get('sku', '')
GetSku(product) == IF product.sku = Absent THEN Str(<<>>) ELSE product.sku

\* A row of OCRMappedData joined with menuitem and MULTIALTUNIT, as the two
\* SELECTs of lines 490-522 return it.
Mapping(name, supplier, mcode, desca, menucode, baseunit, confactor, altunit, vat, menu_desca) ==
    [InvoiceProductName |-> name, InvoiceSupplierName |-> supplier,
     DbMcode |-> mcode, DbDesca |-> desca, DbMenuCode |-> menucode,
     baseunit |-> baseunit, CONFACTOR |-> confactor, altunit |-> altunit,
     vat |-> vat, menu_desca |-> menu_desca]

\* first SELECT, lines 490-503
Query1(rows, name, supplier) ==
    {r \in rows : r.InvoiceProductName = name
                  /\ (r.InvoiceSupplierName = supplier \/ r.InvoiceSupplierName = "supplier")}

\* second SELECT, lines 509-522
Query2(rows, name) == {r \in rows : r.InvoiceProductName = name}

\* lines 528-548: the match dict built from a row
MappedMatch(row) ==
    [desca |-> IF Truthy(row.DbDesca) THEN row.DbDesca
               ELSE IF Truthy(row.menu_desca) THEN row.menu_desca ELSE Str(<<>>),
     mcode |-> row.DbMcode,
     menucode |-> IF row.DbMenuCode \notin {Null, ""} THEN row.DbMenuCode ELSE row.DbMcode,
     baseunit |-> CodeOrEmpty(row.baseunit),
     confactor |-> ValueOrEmpty(row.CONFACTOR),
     altunit |-> CodeOrEmpty(row.altunit),
     vat |-> ValueOrEmpty(row.vat),
     score |-> 10000,
     rank |-> 1]

RECURSIVE DropZeros(_)
DropZeros(s) == IF Len(s) > 1 /\ Head(s) = "0" THEN DropZeros(Tail(s)) ELSE s

Digits(s) == s # <<>> /\ \A i \in 1..Len(s) : s[i] \in {"0", "1"}

TrueWords == {<<"1">>, <<"Y">>, <<"y">>, <<"t", "r", "u", "e">>, <<"T", "r", "u", "e">>}

\* lines 569-572 and 589-592:
\*   try:    isVAT = 1 if str(int(db_vat)) == '1' else 0
\*   except: isVAT = 1 if str(db_vat).strip() in ('1','Y','y','true','True') else 0
IsVAT(db_vat) ==
    CASE db_vat.k = "int" -> IF db_vat.n = 1 THEN 1 ELSE 0
      [] db_vat.k = "str" /\ Digits(Strip(db_vat.s)) ->
            IF DropZeros(Strip(db_vat.s)) = <<"1">> THEN 1 ELSE 0
      [] db_vat.k = "str" /\ ~Digits(Strip(db_vat.s)) ->
            IF Strip(db_vat.s) \in TrueWords THEN 1 ELSE 0
      [] OTHER -> 0

\* the thresholds read as exclusive lower bounds
ConfidenceExclusive(matches) ==
    IF matches # <<>> /\ matches[1].score > 8500 THEN "high"
    ELSE IF matches # <<>> /\ matches[1].score > 7000 THEN "medium"
    ELSE IF matches # <<>> /\ matches[1].score > 6000 THEN "low"
    ELSE "none"

\* lines 599-607
Confidence(matches) ==
    IF matches # <<>> /\ matches[1].score >= 8500 THEN "high"
    ELSE IF matches # <<>> /\ matches[1].score >= 7000 THEN "medium"
    ELSE IF matches # <<>> /\ matches[1].score >= 6000 THEN "low"
    ELSE "none"

\* the classification that reports every fuzzy result as a new mapping
MappedNatureAlways(matches) == "New Mapped"

\* lines 609-613
MappedNature(matches) == IF matches # <<>> THEN "New Mapped" ELSE "Not Matched"

\* the empty-sku branch without its classification
EmptySkuUnmarked(product) ==
    [product EXCEPT !.fuzzy_matches = <<>>, !.best_match = NoMatch,
                    !.keys = @ \cup {"fuzzy_matches", "best_match"}]

\* lines 429-432
EmptySku(product) ==
    [product EXCEPT !.fuzzy_matches = <<>>, !.best_match = NoMatch,
                    !.match_confidence = "none", !.mapped_nature = "Not Matched",
                    !.keys = @ \cup {"fuzzy_matches", "best_match",
                                     "match_confidence", "mapped_nature"}]

\* lines 562-572
ResolveMapped(product, mm) ==
    [product EXCEPT !.best_match = mm, !.fuzzy_matches = <<mm>>,
                    !.match_confidence = "high", !.mapped_nature = "Existing",
                    !.menuitem_vat = mm.vat, !.isVAT = IsVAT(mm.vat),
                    !.keys = EnrichmentKeys]

\* the fuzzy branch, also replacing the item's description by the matched one
ResolveFuzzyRenamed(product, match_result) ==
    [product EXCEPT !.sku = match_result.best_match.desca,
                    !.fuzzy_matches = match_result.fuzzy_matches,
                    !.best_match = match_result.best_match,
                    !.menuitem_vat = IF match_result.best_match # NoMatch
                                       THEN match_result.best_match.vat ELSE Str(<<>>),
                    !.isVAT = IF match_result.best_match # NoMatch
                                THEN IsVAT(match_result.best_match.vat) ELSE 0,
                    !.match_confidence = Confidence(match_result.fuzzy_matches),
                    !.mapped_nature = MappedNature(match_result.fuzzy_matches),
                    !.keys = EnrichmentKeys]

\* lines 583-613
ResolveFuzzy(product, match_result) ==
    [product EXCEPT !.fuzzy_matches = match_result.fuzzy_matches,
                    !.best_match = match_result.best_match,
                    !.menuitem_vat = IF match_result.best_match # NoMatch
                                       THEN match_result.best_match.vat ELSE Str(<<>>),
                    !.isVAT = IF match_result.best_match # NoMatch
                                THEN IsVAT(match_result.best_match.vat) ELSE 0,
                    !.match_confidence = Confidence(match_result.fuzzy_matches),
                    !.mapped_nature = MappedNature(match_result.fuzzy_matches),
                    !.keys = EnrichmentKeys]

NotSeen == [overlay |-> "", match_calls |-> 0]

-----------------------------------------------------------------------------
(* The calls of match_ocr_products the model makes *)

CatA == Row(Str(<<"a", "-", "1">>), "M1", <<"MENU1", "PCS", PyInt(12), "CASE", PyInt(1)>>)
CatNoDesca == Row(NoneVal, "M2", <<"MENU2", Null, NoneVal, Null, NoneVal>>)
CatB == Row(Str(<<"b">>), "M3", <<"MENU3", Null, NoneVal, Null, Str(<<"Y">>)>>)

\* the empty catalog; one with a row that has no description; one whose
\* first row is a two-column row with an empty description
Catalogs ==
    { <<>>, <<CatA, CatNoDesca, CatB>>, <<Row(Str(<<>>), "M4", <<>>), CatB>> }

ProductLists ==
    { <<Product(Str(<<"a">>), 5)>>,
      <<Product(Str(<<" ", "a", " ">>), 5), Product(Str(<<"b">>), 7)>>,
      <<Product(Str(<<>>), 5), Product(Str(<<"a">>), 7)>>,
      <<Product(Str(<<" ">>), 5), Product(Absent, 7)>>,
      <<Product(NoneVal, 5), Product(Str(<<"a">>), 7)>>,
      <<Product(Str(<<"a">>), 5), Product(PyInt(12), 7)>> }

MapAcme ==
    Mapping(<<"a">>, "ACME", "M1", Str(<<"a", "-", "1">>), "MENU1",
            "PCS", PyInt(12), "CASE", PyInt(1), Str(<<"a", "-", "1">>))
MapOther ==
    Mapping(<<"a">>, "OTHER", "M3", NoneVal, "", Null, NoneVal, Null, NoneVal, Str(<<"b">>))

\* the table may not exist yet (line 456 creates it, empty)
NoTable == [exists |-> FALSE, rows |-> {}]
TableAcme == [exists |-> TRUE, rows |-> {MapAcme}]
TableOther == [exists |-> TRUE, rows |-> {MapOther}]

\* connection, supplier_name and the table behind the connection
Connections ==
    { <<FALSE, "ACME", NoTable>>,
      <<TRUE, "", TableAcme>>,
      <<TRUE, "ACME", NoTable>>,
      <<TRUE, "ACME", TableAcme>>,
      <<TRUE, "ACME", TableOther>> }

\* top_k and score_cutoff: the defaults (3, 60.0), and (1, 0.0)
Limits == { <<3, 60000>>, <<1, 0>> }

NoArgs ==
    [menu_items |-> <<>>, top_k |-> 0, score_cutoff |-> 0,
     connection |-> FALSE, supplier_name |-> ""]

\* match_ocr_products is not running (the cache specifications)
MatchOff ==
    /\ args = NoArgs
    /\ ocr_products = <<>>
    /\ given = <<>>
    /\ ocr_mapped = [exists |-> FALSE, rows |-> {}]
    /\ matcher = [_cache |-> NoCache, _cache_timestamp |-> 0]
    /\ enhanced_products = <<>>
    /\ m_pc = "off"
    /\ idx = 0
    /\ sku_query = <<>>
    /\ mapped_match = NoMatch
    /\ m_exc = ""
    /\ seen = <<>>

\* match_ocr_products has been called
MatchCalled ==
    /\ \E menu_items \in Catalogs, l \in Limits, c \in Connections :
          /\ args = [menu_items |-> menu_items, top_k |-> l[1], score_cutoff |-> l[2],
                     connection |-> c[1], supplier_name |-> c[2]]
          /\ ocr_mapped = c[3]
    /\ ocr_products \in ProductLists
    /\ given = ocr_products
    /\ matcher = [_cache |-> NoCache, _cache_timestamp |-> 0]
    /\ enhanced_products = <<>>
    /\ m_pc = "start"
    /\ idx = 0
    /\ sku_query = <<>>
    /\ mapped_match = NoMatch
    /\ m_exc = ""
    /\ seen = [i \in 1..Len(ocr_products) |-> NotSeen]

\* lines 419-422: matcher = FuzzyMatcher(cache_ttl=3600);
\* matcher.load_menu_items(menu_items); enhanced_products = []
MStart ==
    /\ m_pc = "start"
    /\ matcher' = [_cache |-> load_menu_items(args.menu_items),
                   _cache_timestamp |-> now]
    /\ enhanced_products' = <<>>
    /\ idx' = 1
    /\ m_pc' = "loop"
    /\ UNCHANGED <<args, ocr_products, given, ocr_mapped, sku_query, mapped_match,
                   m_exc, seen, cacheVars, threadVars, libVars, hist>>

\* lines 424-437: the next product; sku_query = product.get('sku', '').strip()
\* (AttributeError when the value is not a string), and the empty-sku branch
MReadItem ==
    /\ m_pc = "loop"
    /\ idx <= Len(ocr_products)
    /\ LET sku == GetSku(ocr_products[idx]) IN
         IF sku.k # "str"
           THEN /\ m_pc' = "raised"
                /\ m_exc' = "AttributeError"
                /\ UNCHANGED <<ocr_products, enhanced_products, idx, sku_query,
                               mapped_match>>
           ELSE IF Strip(sku.s) = <<>>
             THEN /\ ocr_products' = [ocr_products EXCEPT ![idx] = EmptySku(@)]
                  /\ enhanced_products' = Append(enhanced_products, idx)
                  /\ idx' = idx + 1
                  /\ UNCHANGED <<m_pc, m_exc, sku_query, mapped_match>>
             ELSE /\ sku_query' = Strip(sku.s)
                  /\ mapped_match' = NoMatch
                  /\ m_pc' = "overlay"
                  /\ UNCHANGED <<ocr_products, enhanced_products, idx, m_exc>>
    /\ UNCHANGED <<args, given, ocr_mapped, matcher, seen, cacheVars, threadVars, libVars, hist>>

\* The statements of the try block (lines 443-552) at which the database can fail.
OverlayStages == {"cursor", "schema", "table", "query1", "query2", "row", "close"}

\* the lookup without its `except Exception`: a database error leaves the call
MOverlayUncaught ==
    /\ m_pc = "overlay"
    /\ IF args.connection /\ args.supplier_name # ""
         THEN \E fail \in OverlayStages \cup {"none"} :
                LET rows1 == Query1(ocr_mapped.rows, sku_query, args.supplier_name)
                    rows2 == Query2(ocr_mapped.rows, sku_query)
                    found == IF rows1 # {} THEN rows1 ELSE rows2
                IN  /\ fail = "query2" => rows1 = {}
                    /\ fail = "row" => found # {}
                    /\ ocr_mapped' = IF fail \in {"cursor", "schema", "table"}
                                       THEN ocr_mapped
                                       ELSE [ocr_mapped EXCEPT !.exists = TRUE]
                    /\ IF fail # "none"
                         THEN /\ mapped_match' = NoMatch
                              /\ seen' = [seen EXCEPT ![idx].overlay = "error"]
                              /\ m_pc' = "raised"
                              /\ m_exc' = "OverlayError"
                         ELSE /\ m_pc' = "resolve"
                              /\ UNCHANGED m_exc
                              /\ IF found = {}
                                   THEN /\ mapped_match' = NoMatch
                                        /\ seen' = [seen EXCEPT ![idx].overlay = "miss"]
                                   ELSE /\ \E row \in found : mapped_match' = MappedMatch(row)
                                        /\ seen' = [seen EXCEPT ![idx].overlay = "hit"]
         ELSE /\ seen' = [seen EXCEPT ![idx].overlay = "skipped"]
              /\ m_pc' = "resolve"
              /\ UNCHANGED <<ocr_mapped, mapped_match, m_exc>>
    /\ UNCHANGED <<args, ocr_products, given, matcher, enhanced_products, idx,
                   sku_query, cacheVars, threadVars, libVars, hist>>

\* lines 440-558: the OCRMappedData lookup. Any exception inside the try block
\* is caught (line 553) and leaves mapped_match = None.
MOverlay ==
    /\ m_pc = "overlay"
    /\ IF args.connection /\ args.supplier_name # ""
         THEN \E fail \in OverlayStages \cup {"none"} :
                LET rows1 == Query1(ocr_mapped.rows, sku_query, args.supplier_name)
                    rows2 == Query2(ocr_mapped.rows, sku_query)
                    found == IF rows1 # {} THEN rows1 ELSE rows2
                IN  /\ fail = "query2" => rows1 = {}
                    /\ fail = "row" => found # {}
                    /\ ocr_mapped' = IF fail \in {"cursor", "schema", "table"}
                                       THEN ocr_mapped
                                       ELSE [ocr_mapped EXCEPT !.exists = TRUE]
                    /\ IF fail # "none"
                         THEN /\ mapped_match' = NoMatch
                              /\ seen' = [seen EXCEPT ![idx].overlay = "error"]
                         ELSE IF found = {}
                           THEN /\ mapped_match' = NoMatch
                                /\ seen' = [seen EXCEPT ![idx].overlay = "miss"]
                           ELSE /\ \E row \in found : mapped_match' = MappedMatch(row)
                                /\ seen' = [seen EXCEPT ![idx].overlay = "hit"]
         ELSE /\ seen' = [seen EXCEPT ![idx].overlay = "skipped"]
              /\ UNCHANGED <<ocr_mapped, mapped_match>>
    /\ m_pc' = "resolve"
    /\ UNCHANGED <<args, ocr_products, given, matcher, enhanced_products, idx,
                   sku_query, m_exc, cacheVars, threadVars, libVars, hist>>

\* the resolution that matches every item again, mapped or not
MResolveRematch ==
    /\ m_pc = "resolve"
    /\ seen' = [seen EXCEPT ![idx].match_calls = @ + 1]
    /\ IF ~is_cache_valid(matcher, now)
         THEN /\ m_pc' = "raised"
              /\ m_exc' = "ValueError"
              /\ UNCHANGED <<ocr_products, enhanced_products, idx>>
         ELSE /\ \E scores \in ScoreVectors(matcher._cache) :
                   ocr_products' = [ocr_products EXCEPT ![idx] =
                       ResolveFuzzy(@, match_single(matcher._cache, scores,
                                       args.top_k, args.score_cutoff))]
              /\ enhanced_products' = Append(enhanced_products, idx)
              /\ idx' = idx + 1
              /\ m_pc' = "loop"
              /\ UNCHANGED m_exc
    /\ UNCHANGED <<args, given, ocr_mapped, matcher, sku_query, mapped_match,
                   cacheVars, threadVars, libVars, hist>>

\* lines 560-615: the mapped match if there is one, else matcher.match_single
\* (ValueError when the matcher's cache has expired, lines 224-225); then
\* enhanced_products.append(product)
MResolve ==
    /\ m_pc = "resolve"
    /\ IF mapped_match # NoMatch
         THEN /\ ocr_products' = [ocr_products EXCEPT ![idx] = ResolveMapped(@, mapped_match)]
              /\ enhanced_products' = Append(enhanced_products, idx)
              /\ idx' = idx + 1
              /\ m_pc' = "loop"
              /\ UNCHANGED <<seen, m_exc>>
         ELSE /\ seen' = [seen EXCEPT ![idx].match_calls = @ + 1]
              /\ IF ~is_cache_valid(matcher, now)
                   THEN /\ m_pc' = "raised"
                        /\ m_exc' = "ValueError"
                        /\ UNCHANGED <<ocr_products, enhanced_products, idx>>
                   ELSE /\ \E scores \in ScoreVectors(matcher._cache) :
                             ocr_products' = [ocr_products EXCEPT ![idx] =
                                 ResolveFuzzy(@, match_single(matcher._cache, scores,
                                                 args.top_k, args.score_cutoff))]
                        /\ enhanced_products' = Append(enhanced_products, idx)
                        /\ idx' = idx + 1
                        /\ m_pc' = "loop"
                        /\ UNCHANGED m_exc
    /\ UNCHANGED <<args, given, ocr_mapped, matcher, sku_query, mapped_match,
                   cacheVars, threadVars, libVars, hist>>

\* line 617: return enhanced_products
MReturn ==
    /\ m_pc = "loop"
    /\ idx > Len(ocr_products)
    /\ m_pc' = "returned"
    /\ UNCHANGED <<args, ocr_products, given, ocr_mapped, matcher, enhanced_products,
                   idx, sku_query, mapped_match, m_exc, seen, cacheVars, threadVars, libVars, hist>>

\* time passes while match_ocr_products runs
MTick ==
    /\ m_pc \in {"loop", "overlay", "resolve"}
    /\ TicksOf(now) < MaxTicks
    /\ \E d \in {1, MatcherTTL} : now' = now + d
    /\ UNCHANGED <<cache_data, cache_timestamp, load_count, lock, threadVars, matchVars, libVars, hist>>

-----------------------------------------------------------------------------
(* menu_cache.py: constructing MenuItemCache *)

\* the TTLs a caller asks for, besides the default
CtorTTLs == {60, 7200}

\* The class before the module body has run: no instance.
\* given/ttl_arg: the constructor call's argument; valid/age: the last
\* is_valid() answer and the age it was asked at; reported: get_stats()['ttl'].
CtorOff ==
    [pc |-> "off", given |-> FALSE, ttl_arg |-> 0, exc |-> "",
     instance |-> FALSE, initialized |-> FALSE, ttl |-> 0, set_ttl |-> FALSE,
     valid |-> "", age |-> 0, reported |-> 0]

\* line 156 at import: _global_cache = MenuItemCache()
CtorImport ==
    /\ ctor.pc = "import"
    /\ ctor' = [ctor EXCEPT !.pc = "new", !.given = FALSE, !.ttl_arg = 0]
    /\ UNCHANGED <<cacheVars, threadVars, matchVars, query, prep, retry, parse, hist, tokens>>

\* a later MenuItemCache() or MenuItemCache(ttl=T), as QUICK_REFERENCE.py:152
CtorCall ==
    /\ ctor.pc \in {"returned", "raised"}
    /\ \/ ctor' = [ctor EXCEPT !.pc = "new", !.given = FALSE, !.ttl_arg = 0, !.exc = ""]
       \/ \E T \in CtorTTLs :
            ctor' = [ctor EXCEPT !.pc = "new", !.given = TRUE, !.ttl_arg = T, !.exc = ""]
    /\ UNCHANGED <<cacheVars, threadVars, matchVars, query, prep, retry, parse, hist, tokens>>

\* lines 36-43: __new__(cls) receives the constructor's arguments and accepts
\* none: TypeError when ttl is passed; otherwise the singleton, created once
CtorNew ==
    /\ ctor.pc = "new"
    /\ IF ctor.given
         THEN ctor' = [ctor EXCEPT !.pc = "raised", !.exc = "TypeError"]
         ELSE ctor' = [ctor EXCEPT !.pc = "init", !.instance = TRUE,
                                   !.initialized = IF ctor.instance THEN @ ELSE FALSE]
    /\ UNCHANGED <<cacheVars, threadVars, matchVars, query, prep, retry, parse, hist, tokens>>

\* lines 45-60: __init__(self, ttl=3600), a no-op once initialized
CtorInit ==
    /\ ctor.pc = "init"
    /\ IF ctor.initialized
         THEN ctor' = [ctor EXCEPT !.pc = "returned"]
         ELSE ctor' = [ctor EXCEPT !.pc = "returned", !.initialized = TRUE,
                                   !.ttl = IF ctor.given THEN ctor.ttl_arg ELSE DefaultTTL]
    /\ UNCHANGED <<cacheVars, threadVars, matchVars, query, prep, retry, parse, hist, tokens>>

\* lines 62-65: set_ttl(ttl)
CtorSetTtl ==
    /\ ctor.pc \in {"returned", "raised"}
    /\ ctor.instance
    /\ \E T \in CtorTTLs : ctor' = [ctor EXCEPT !.ttl = T, !.set_ttl = TRUE]
    /\ UNCHANGED <<cacheVars, threadVars, matchVars, query, prep, retry, parse, hist, tokens>>

\* lines 117-118 and 138: is_valid() on a loaded cache of the given age, and
\* the 'ttl' of get_stats()
CtorProbe ==
    /\ ctor.pc \in {"returned", "raised"}
    /\ ctor.instance
    /\ \E a \in {0, 59, 60, 3599, 3600, 7199, 7200} :
          ctor' = [ctor EXCEPT !.age = a,
                               !.valid = IF a < ctor.ttl THEN "yes" ELSE "no",
                               !.reported = ctor.ttl]
    /\ UNCHANGED <<cacheVars, threadVars, matchVars, query, prep, retry, parse, hist, tokens>>

-----------------------------------------------------------------------------
(* fuzzy_matcher.py: FuzzyMatcher.match_single and get_best_match, called directly *)

\* ret: what match_single returned, a list ([]) or a dict; best: what
\* get_best_match returned, a match dict ("match") or None ("none")
QueryOff ==
    [pc |-> "off", fn |-> "", q |-> NoneVal, limit |-> 0, score_cutoff |-> 0,
     ret |-> [kind |-> "", fuzzy_matches |-> <<>>, best_match |-> NoMatch],
     best |-> "", exc |-> ""]

Queries ==
    { Str(<<>>), Str(<<" ">>), Str(<<" ", " ">>), NoneVal,
      Str(<<"a">>), Str(<<" ", "b", " ">>), Str(<<"-">>) }

\* test_edge_cases: matcher = FuzzyMatcher(); matcher.load_menu_items(...)
QLoad ==
    /\ query.pc = "start"
    /\ \E menu_items \in Catalogs :
          matcher' = [_cache |-> load_menu_items(menu_items), _cache_timestamp |-> now]
    /\ query' = [query EXCEPT !.pc = "idle"]
    /\ UNCHANGED <<cacheVars, threadVars, args, ocr_products, given, ocr_mapped,
                   enhanced_products, m_pc, idx, sku_query, mapped_match, m_exc, seen,
                   ctor, prep, retry, parse, hist, tokens>>

\* matcher.match_single(q, limit, score_cutoff)
QCallMatchSingle ==
    /\ query.pc \in {"idle", "returned", "raised"}
    /\ \E q \in Queries, l \in Limits :
          query' = [QueryOff EXCEPT !.pc = "match", !.fn = "match_single", !.q = q,
                                    !.limit = l[1], !.score_cutoff = l[2]]
    /\ UNCHANGED <<cacheVars, threadVars, matchVars, ctor, prep, retry, parse, hist, tokens>>

\* matcher.get_best_match(q, score_cutoff): lines 370-371,
\* match_single(query, limit=1, score_cutoff=score_cutoff)
QCallGetBest ==
    /\ query.pc \in {"idle", "returned", "raised"}
    /\ \E q \in Queries, c \in {70000, 0} :
          query' = [QueryOff EXCEPT !.pc = "match", !.fn = "get_best_match", !.q = q,
                                    !.limit = 1, !.score_cutoff = c]
    /\ UNCHANGED <<cacheVars, threadVars, matchVars, ctor, prep, retry, parse, hist, tokens>>

\* match_single lines 224-301: ValueError without a valid index; the list []
\* for an empty query; otherwise the dict of results
QMatchSingle ==
    /\ query.pc = "match"
    /\ LET next == IF query.fn = "match_single" THEN "returned" ELSE "subscript" IN
       IF ~is_cache_valid(matcher, now)
         THEN query' = [query EXCEPT !.pc = "raised", !.exc = "ValueError"]
         ELSE IF ~Truthy(query.q) \/ Strip(query.q.s) = <<>>
           THEN query' = [query EXCEPT !.pc = next, !.ret.kind = "list"]
           ELSE \E scores \in ScoreVectors(matcher._cache) :
                  LET r == match_single(matcher._cache, scores,
                                        query.limit, query.score_cutoff)
                  IN  query' = [query EXCEPT !.pc = next,
                                  !.ret = [kind |-> "dict",
                                           fuzzy_matches |-> r.fuzzy_matches,
                                           best_match |-> r.best_match]]
    /\ UNCHANGED <<cacheVars, threadVars, matchVars, ctor, prep, retry, parse, hist, tokens>>

\* get_best_match line 371: return match_result['best_match'];
\* a list subscripted by a string raises TypeError
QSubscript ==
    /\ query.pc = "subscript"
    /\ IF query.ret.kind = "list"
         THEN query' = [query EXCEPT !.pc = "raised", !.exc = "TypeError"]
         ELSE query' = [query EXCEPT !.pc = "returned",
                          !.best = IF query.ret.best_match = NoMatch
                                     THEN "none" ELSE "match"]
    /\ UNCHANGED <<cacheVars, threadVars, matchVars, ctor, prep, retry, parse, hist, tokens>>

\* time passes between the calls
QTick ==
    /\ query.pc \in {"idle", "returned", "raised"}
    /\ TicksOf(now) < MaxTicks
    /\ \E d \in {1, MatcherTTL} : now' = now + d
    /\ UNCHANGED <<cache_data, cache_timestamp, load_count, lock, threadVars,
                   matchVars, libVars, hist>>

-----------------------------------------------------------------------------
(* fuzzy_matcher.py: preprocess_text applied to arbitrary strings *)

MaxLen == 3

\* every string of at most MaxLen characters: lower case, upper case, digit,
\* space, tab, punctuation
Texts == UNION { [1..n -> {"a", "B", "1", " ", "\t", "-"}] : n \in 0..MaxLen }

TextOff == [pc |-> "off", s |-> <<>>, once |-> <<>>, twice |-> <<>>]

\* once = preprocess_text(s)
TextNormalize ==
    /\ prep.pc = "given"
    /\ prep' = [prep EXCEPT !.pc = "once", !.once = preprocess_text(Str(prep.s))]
    /\ UNCHANGED <<cacheVars, threadVars, matchVars, ctor, query, retry, parse, hist, tokens>>

\* twice = preprocess_text(once)
TextNormalizeAgain ==
    /\ prep.pc = "once"
    /\ prep' = [prep EXCEPT !.pc = "twice", !.twice = preprocess_text(Str(prep.once))]
    /\ UNCHANGED <<cacheVars, threadVars, matchVars, ctor, query, retry, parse, hist, tokens>>

-----------------------------------------------------------------------------
(* retry_policy.py: RetryPolicy *)

MaxRetries == 2

\* the largest attempt number calculate_delay is called with directly
MaxAttempt == 6

\* The exceptions func may raise: a type and a message (its words). The
\* messages: no keyword; a retryable keyword in mixed case; a non-retryable
\* keyword; both.
RetryErrors ==
    [ type : {"ValueError", "FileNotFoundError", "ConnectionError", "RuntimeError"},
      msg : { <<"boom">>, <<"Invalid", "Connection", "params">>,
              <<"Unsupported", "file">>, <<"unsupported", "connection">> } ]

NoError == [type |-> "", msg |-> <<>>]

\* str.lower() on the words of the messages
Lower(w) ==
    CASE w = "Invalid" -> "invalid" [] w = "Connection" -> "connection"
      [] w = "Unsupported" -> "unsupported" [] OTHER -> w

\* lines 70-105: the non-retryable keywords first, then the retryable ones,
\* then the exception's type
is_retryable_error(error) ==
    LET error_str == {Lower(error.msg[i]) : i \in 1..Len(error.msg)} IN
    IF error_str \cap {"invalid file", "not an invoice", "unsupported", "malformed",
                       "invalid format"} # {}
      THEN FALSE
      ELSE IF error_str \cap {"connection", "timeout", "temporarily", "exceed",
                              "rate limit", "quota", "service unavailable",
                              "internal server error", "bad gateway",
                              "502", "503", "504", "try again"} # {}
        THEN TRUE
        ELSE error.type \notin {"ValueError", "FileNotFoundError"}

\* lines 117-125: exponential backoff capped at max_delay, then the jitter;
\* r is the sample of random.uniform(0, delay * 0.25), in quarters of the
\* interval. Delays are in milliseconds.
calculate_delay(attempt, r) ==
    LET pow[k \in 0..attempt] ==
            IF k = 0 THEN 1 ELSE retry.backoff_multiplier * pow[k - 1]
        backoff == retry.initial_delay * pow[attempt]
        delay == IF backoff < retry.max_delay THEN backoff ELSE retry.max_delay
    IN  IF retry.jitter THEN delay + (((delay * 25) \div 100) * r) \div 4 ELSE delay

\* calls, failures, sleeps, func_ret, stale: history, the invocations of func,
\* those that raised, and the sleeps of this call, the value func returned, and
\* whether retry_log held entries when this call began; delay: the last value
\* of calculate_delay; ret: the value the call returned
RetryOff ==
    [pc |-> "off", async |-> FALSE, max_retries |-> 0, initial_delay |-> 0,
     max_delay |-> 0, backoff_multiplier |-> 0, jitter |-> FALSE, attempt |-> 0,
     retry_count |-> 0, retry_log |-> <<>>, last_error |-> NoError,
     raised |-> NoError, calls |-> 0, failures |-> 0, sleeps |-> 0, delay |-> 0,
     stale |-> FALSE, func_ret |-> "", ret |-> ""]

\* lines 107-125: calculate_delay(attempt) called on its own
RDelay ==
    /\ retry.pc \in {"idle", "returned", "raised"}
    /\ \E attempt \in 0..MaxAttempt, r \in {0, 2} :
          retry' = [retry EXCEPT !.delay = calculate_delay(attempt, r)]
    /\ UNCHANGED <<cacheVars, threadVars, matchVars, ctor, query, prep, parse, hist, tokens>>

\* RCall, had it kept the retry_log of the execution before
RCallKeepLog ==
    /\ retry.pc \in {"idle", "returned", "raised"}
    /\ \E a \in BOOLEAN :
          retry' = [retry EXCEPT !.pc = "loop", !.async = a, !.attempt = 0,
                                 !.retry_count = 0,
                                 !.last_error = NoError, !.raised = NoError,
                                 !.calls = 0, !.failures = 0, !.sleeps = 0,
                                 !.stale = (retry.retry_log # <<>>),
                                 !.func_ret = "", !.ret = ""]
    /\ UNCHANGED <<cacheVars, threadVars, matchVars, ctor, query, prep, parse, hist, tokens>>

\* lines 145-147 (208-210): execute_with_retry[_sync](func) begins
RCall ==
    /\ retry.pc \in {"idle", "returned", "raised"}
    /\ \E a \in BOOLEAN :
          retry' = [retry EXCEPT !.pc = "loop", !.async = a, !.attempt = 0,
                                 !.retry_count = 0, !.retry_log = <<>>,
                                 !.last_error = NoError, !.raised = NoError,
                                 !.calls = 0, !.failures = 0, !.sleeps = 0,
                                 !.stale = (retry.retry_log # <<>>),
                                 !.func_ret = "", !.ret = ""]
    /\ UNCHANGED <<cacheVars, threadVars, matchVars, ctor, query, prep, parse, hist, tokens>>

\* lines 149-159 (212-222): the next attempt of the for loop calls func, which
\* returns or raises; lines 186-188 (249-251) when the range is exhausted
RAttempt ==
    /\ retry.pc = "loop"
    /\ IF retry.attempt > retry.max_retries
         THEN retry' = [retry EXCEPT !.pc = "raised", !.raised = retry.last_error]
         ELSE \/ \E v \in {"invoice", "receipt"} :
                    retry' = [retry EXCEPT !.pc = "returned", !.calls = @ + 1,
                                           !.func_ret = v, !.ret = v]
              \/ \E e \in RetryErrors :
                    retry' = [retry EXCEPT !.pc = "except", !.calls = @ + 1,
                                           !.failures = @ + 1,
                                           !.last_error = e]
    /\ UNCHANGED <<cacheVars, threadVars, matchVars, ctor, query, prep, parse, hist, tokens>>

\* RExcept, had it slept after every failed attempt, the last included
RExceptAlwaysSleep ==
    /\ retry.pc = "except"
    /\ LET e == retry.last_error
           is_retryable == is_retryable_error(e)
           logged == [retry EXCEPT !.retry_log = Append(@,
                          [attempt |-> retry.attempt + 1, error |-> e.msg,
                           retryable |-> is_retryable])]
       IN  IF ~is_retryable
             THEN retry' = [logged EXCEPT !.pc = "raised", !.raised = e]
             ELSE \E r \in {0, 2} :
                    retry' = [logged EXCEPT !.pc = "loop", !.sleeps = @ + 1,
                                 !.delay = calculate_delay(retry.attempt, r),
                                 !.retry_count = retry.attempt + 1,
                                 !.attempt = @ + 1]
    /\ UNCHANGED <<cacheVars, threadVars, matchVars, ctor, query, prep, parse, hist, tokens>>

\* lines 161-184 (224-247): the handler logs the failure, re-raises a
\* non-retryable error, and sleeps before the next attempt if there is one
RExcept ==
    /\ retry.pc = "except"
    /\ LET e == retry.last_error
           is_retryable == is_retryable_error(e)
           logged == [retry EXCEPT !.retry_log = Append(@,
                          [attempt |-> retry.attempt + 1, error |-> e.msg,
                           retryable |-> is_retryable])]
       IN  IF ~is_retryable
             THEN retry' = [logged EXCEPT !.pc = "raised", !.raised = e]
             ELSE IF retry.attempt < retry.max_retries
               THEN \E r \in {0, 2} :
                      retry' = [logged EXCEPT !.pc = "loop", !.sleeps = @ + 1,
                                   !.delay = calculate_delay(retry.attempt, r),
                                   !.retry_count = retry.attempt + 1,
                                   !.attempt = @ + 1]
               ELSE retry' = [logged EXCEPT !.pc = "loop", !.attempt = @ + 1]
    /\ UNCHANGED <<cacheVars, threadVars, matchVars, ctor, query, prep, parse, hist, tokens>>

-----------------------------------------------------------------------------
(* api.py: parse_number_safe *)

\* the longest string parse_number_safe is given
MaxNumLen == 6

\* line 664: re.search(r"-?\d[\d,]*\.?\d*", s).group(0), the leftmost match,
\* each part as long as it can be; <<>> when there is no match
NumberToken(s) ==
    LET Num == {"0", "1"}
        ds == {i \in 1..Len(s) : s[i] \in Num}
    IN  IF ds = {} THEN <<>>
        ELSE
          LET d == CHOOSE i \in ds : \A j \in ds : i <= j
              start == IF d > 1 /\ s[d - 1] = "-" THEN d - 1 ELSE d
              e1 == CHOOSE e \in d..Len(s) :
                       /\ \A j \in d..e : s[j] \in Num \cup {","}
                       /\ e = Len(s) \/ s[e + 1] \notin Num \cup {","}
              e2 == IF e1 < Len(s) /\ s[e1 + 1] = "." THEN e1 + 1 ELSE e1
              e3 == CHOOSE e \in e2..Len(s) :
                       /\ \A j \in (e2 + 1)..e : s[j] \in Num
                       /\ e = Len(s) \/ s[e + 1] \notin Num
          IN  SubSeq(s, start, e3)

\* line 666: float(m.group(0).replace(',', '')): the sign, the whole part and
\* the fraction in millionths
TokenValue(tok) ==
    LET t == SelectSeq(tok, LAMBDA c : c \notin {",", "-"})
        dots == {i \in 1..Len(t) : t[i] = "."}
        dot == IF dots = {} THEN Len(t) + 1 ELSE CHOOSE i \in dots : TRUE
        p10[k \in 0..12] == IF k = 0 THEN 1 ELSE 10 * p10[k - 1]
        digit(i) == IF t[i] = "1" THEN 1 ELSE 0
        whole[i \in 0..Len(t)] ==
            IF i = 0 THEN 0
            ELSE whole[i - 1] + (IF i < dot THEN digit(i) * p10[dot - 1 - i] ELSE 0)
        frac[i \in 0..Len(t)] ==
            IF i = 0 THEN 0
            ELSE frac[i - 1] + (IF i > dot THEN digit(i) * p10[6 - (i - dot)] ELSE 0)
    IN  [neg |-> tok[1] = "-" /\ (whole[Len(t)] # 0 \/ frac[Len(t)] # 0),
         whole |-> whole[Len(t)], frac |-> frac[Len(t)]]

\* lines 650-677; r is the local result
parse_number_safe(value) ==
    LET corrected(r) ==
            IF /\ ~r.neg /\ r.whole >= 1000
               /\ r.frac = 0 /\ r.whole % 1000 = 0
               /\ r.whole < 100000 \/ (r.whole = 100000 /\ r.frac = 0)
              THEN LET candidate == [r EXCEPT !.whole = r.whole \div 1000]
                   IN  IF candidate.whole >= 1 /\ candidate.whole <= 999
                         THEN candidate ELSE r
              ELSE r
        zero == [neg |-> FALSE, whole |-> 0, frac |-> 0]
    IN  CASE value.k = "none" -> zero
          [] value.k = "int" -> corrected([zero EXCEPT !.whole = value.n])
          [] OTHER -> IF NumberToken(value.s) = <<>> THEN zero
                      ELSE corrected(TokenValue(NumberToken(value.s)))

ParseOff ==
    [pc |-> "off", value |-> NoneVal, result |-> [neg |-> FALSE, whole |-> 0, frac |-> 0]]

\* lines 719-727: parse_number_safe(x) for an extracted value x
ParseCall ==
    /\ parse.pc = "given"
    /\ parse' = [parse EXCEPT !.pc = "done", !.result = parse_number_safe(parse.value)]
    /\ UNCHANGED <<cacheVars, threadVars, matchVars, ctor, query, prep, retry, hist, tokens>>

-----------------------------------------------------------------------------
(* token_manager.py: TokenManager.log_token_usage *)

\* the number of log_token_usage calls
MaxCalls == 3

\* The tables, for one token: TokenMaster's TotalTokenLimit (-1: no row),
\* TokenUsageLogs as its number of rows and the sum of TotalTokensUsed,
\* TokenUsageSummary as the sequence of its rows (limit: history, the limit the
\* row was created with). Per call: the locals total_tokens and summary_row
\* (0: None). calls, failed: history, the calls begun and whether one returned
\* success False.
TokensOff ==
    [master_limit |-> -1, log_rows |-> 0, log_total |-> 0, summary |-> <<>>,
     pc |-> [t \in Threads |-> "off"], total_tokens |-> [t \in Threads |-> 0],
     summary_row |-> [t \in Threads |-> 0],
     existing |-> [t \in Threads |-> [used |-> 0, remaining |-> 0]],
     calls |-> 0, failed |-> FALSE]

\* lines 235-250: total_tokens = input_tokens + output_tokens; INSERT INTO
\* TokenUsageLogs; commit. An exception (lines 304-309) returns success False.
TLog(t) ==
    /\ tokens.pc[t] = "idle"
    /\ tokens.calls < MaxCalls
    /\ \/ \E n \in {1, 2} :
            tokens' = [tokens EXCEPT !.pc[t] = "select", !.total_tokens[t] = n,
                                     !.log_rows = @ + 1, !.log_total = @ + n,
                                     !.calls = @ + 1]
       \/ tokens' = [tokens EXCEPT !.calls = @ + 1, !.failed = TRUE]
    /\ UNCHANGED <<cacheVars, threadVars, matchVars, ctor, query, prep, retry, parse, hist>>

\* lines 253-259: SELECT ... FROM TokenUsageSummary WHERE TokenID = ?;
\* fetchone() gives one of the token's rows, or None
TSelect(t) ==
    /\ tokens.pc[t] = "select"
    /\ \/ /\ tokens.summary = <<>>
          /\ tokens' = [tokens EXCEPT !.pc[t] = "write", !.summary_row[t] = 0]
       \/ \E i \in 1..Len(tokens.summary) :
            tokens' = [tokens EXCEPT !.pc[t] = "write", !.summary_row[t] = i,
                          !.existing[t] = [used |-> tokens.summary[i].used,
                                           remaining |-> tokens.summary[i].remaining]]
       \/ tokens' = [tokens EXCEPT !.pc[t] = "idle", !.failed = TRUE]
    /\ UNCHANGED <<cacheVars, threadVars, matchVars, ctor, query, prep, retry, parse, hist>>

\* lines 261-302: UPDATE the row read with the sums computed from it, or
\* INSERT a row from TokenMaster's limit (100000 without one); commit; return
\* success True
TWrite(t) ==
    /\ tokens.pc[t] = "write"
    /\ LET total_tokens == tokens.total_tokens[t]
           i == tokens.summary_row[t]
           total_limit == IF tokens.master_limit = -1 THEN 100000 ELSE tokens.master_limit
       IN  \/ /\ i # 0
              /\ tokens' = [tokens EXCEPT !.pc[t] = "idle",
                    !.summary[i].used = tokens.existing[t].used + total_tokens,
                    !.summary[i].remaining = tokens.existing[t].remaining - total_tokens]
           \/ /\ i = 0
              /\ tokens' = [tokens EXCEPT !.pc[t] = "idle",
                    !.summary = Append(@, [used |-> total_tokens,
                                           remaining |-> total_limit - total_tokens,
                                           limit |-> total_limit])]
           \/ tokens' = [tokens EXCEPT !.pc[t] = "idle", !.failed = TRUE]
    /\ UNCHANGED <<cacheVars, threadVars, matchVars, ctor, query, prep, retry, parse, hist>>

LibOff == ctor = CtorOff /\ query = QueryOff /\ prep = TextOff /\ retry = RetryOff /\ parse = ParseOff /\ tokens = TokensOff

\* One caller at a time uses the cache API.
Init == InitCache /\ callers = {1} /\ MatchOff /\ LibOff /\ hist = HistOff

\* The request threads of the API server use the cache API concurrently.
InitConc == InitCache /\ callers = Threads /\ MatchOff /\ LibOff /\ hist = HistOff

Next == (\E t \in Threads : CacheStep(t)) \/ Tick

Spec == Init /\ [][Next]_vars
SpecConc == InitConc /\ [][Next]_vars

\* The request threads use the cache API concurrently; the history of the
\* refreshes is kept.
InitRace ==
    /\ InitCache /\ callers = Threads /\ MatchOff /\ LibOff
    /\ hist = [HistOff EXCEPT !.on = TRUE]

SpecRace == InitRace /\ [][Next]_vars

\* One call of match_ocr_products.
InitMatch == InitCache /\ callers = {} /\ MatchCalled /\ LibOff /\ hist = HistOff

NextMatch == MStart \/ MReadItem \/ MOverlay \/ MResolve \/ MReturn \/ MTick

SpecMatch == InitMatch /\ [][NextMatch]_vars

\* The module menu_cache is imported, then the class is used.
InitCtor ==
    /\ InitCache /\ callers = {} /\ MatchOff /\ hist = HistOff
    /\ tokens = TokensOff
    /\ parse = ParseOff
    /\ ctor = [CtorOff EXCEPT !.pc = "import"]
    /\ query = QueryOff
    /\ prep = TextOff
    /\ retry = RetryOff

NextCtor == CtorImport \/ CtorCall \/ CtorNew \/ CtorInit \/ CtorSetTtl \/ CtorProbe

SpecCtor == InitCtor /\ [][NextCtor]_vars

\* A FuzzyMatcher is built and loaded, then queried directly.
InitQuery ==
    /\ InitCache /\ callers = {} /\ MatchOff /\ hist = HistOff
    /\ tokens = TokensOff
    /\ parse = ParseOff
    /\ ctor = CtorOff
    /\ query = [QueryOff EXCEPT !.pc = "start"]
    /\ prep = TextOff
    /\ retry = RetryOff

NextQuery ==
    QLoad \/ QCallMatchSingle \/ QCallGetBest \/ QMatchSingle \/ QSubscript \/ QTick

SpecQuery == InitQuery /\ [][NextQuery]_vars

\* preprocess_text is applied to a string, then to its own output.
InitText ==
    /\ InitCache /\ callers = {} /\ MatchOff /\ hist = HistOff
    /\ tokens = TokensOff
    /\ parse = ParseOff
    /\ ctor = CtorOff
    /\ query = QueryOff
    /\ \E s \in Texts : prep = [TextOff EXCEPT !.pc = "given", !.s = s]
    /\ retry = RetryOff

NextText == TextNormalize \/ TextNormalizeAgain

SpecText == InitText /\ [][NextText]_vars

\* A RetryPolicy(RetryConfig(...)) is built, then used: the other settings
\* are the defaults (api.py passes the same values), or a max_delay of 1.5 s.
InitRetry ==
    /\ InitCache /\ callers = {} /\ MatchOff /\ hist = HistOff
    /\ tokens = TokensOff
    /\ parse = ParseOff
    /\ ctor = CtorOff /\ query = QueryOff /\ prep = TextOff
    /\ \E n \in 0..MaxRetries, cap \in {30000, 1500}, j \in BOOLEAN :
          retry = [RetryOff EXCEPT !.pc = "idle", !.max_retries = n,
                                   !.initial_delay = 1000, !.max_delay = cap,
                                   !.backoff_multiplier = 2, !.jitter = j]

NextRetry == RCall \/ RAttempt \/ RExcept \/ RDelay

SpecRetry == InitRetry /\ [][NextRetry]_vars

\* The model returned a value for a numeric column: None, a number or a string.
InitParse ==
    /\ InitCache /\ callers = {} /\ MatchOff /\ hist = HistOff
    /\ tokens = TokensOff
    /\ ctor = CtorOff /\ query = QueryOff /\ prep = TextOff /\ retry = RetryOff
    /\ \E v \in {NoneVal} \cup {PyInt(n) : n \in {0, 10, 10000}}
                \cup {Str(s) : s \in UNION { [1..n -> {"0", "1", ",", ".", "-", "q"}] :
                                              n \in 0..MaxNumLen }} :
          parse = [ParseOff EXCEPT !.pc = "given", !.value = v]

NextParse == ParseCall

SpecParse == InitParse /\ [][NextParse]_vars

\* Requests log their token usage, each on its own connection.
InitTokens ==
    /\ InitCache /\ callers = {} /\ MatchOff /\ hist = HistOff
    /\ ctor = CtorOff /\ query = QueryOff /\ prep = TextOff /\ retry = RetryOff
    /\ parse = ParseOff
    /\ \E l \in {-1, 10} :
          tokens = [TokensOff EXCEPT !.master_limit = l,
                                     !.pc = [t \in Threads |-> "idle"]]

NextTokens == \E t \in Threads : TLog(t) \/ TSelect(t) \/ TWrite(t)

SpecTokens == InitTokens /\ [][NextTokens]_vars

-----------------------------------------------------------------------------
(* Properties of the catalog cache *)

GetCachedOver(t) ==
    result[t].op = "get_cached" /\ pc[t] \in {"returned", "raised"}

\* C1: get_cached_menu_items returns the cached items without calling fetch
\* when force_refresh is false and the cache is valid; in every other case it
\* calls fetch exactly once and, if fetch succeeds, installs the result as the
\* new snapshot (cache valid, load count increased by one) and returns it.
\* Stated for the single caller, whose call began in the state `pre`.
C1_GetCachedContract ==
    \A t \in callers :
        GetCachedOver(t) =>
            /\ result[t].path \in {"hit", "miss"}
            /\ result[t].path = "hit" =>
                   /\ ~force_refresh[t]
                   /\ pre.data # NoData
                   /\ Fresh(pre.at, pre.timestamp)
                   /\ pc[t] = "returned"
                   /\ fetch_calls[t] = 0
                   /\ result[t].items = pre.data.items
            /\ result[t].path = "miss" =>
                   /\ force_refresh[t] \/ pre.data = NoData \/ ~Fresh(now, pre.timestamp)
                   /\ fetch_calls[t] = 1
                   /\ result[t].exc # "FetchError" =>
                          /\ pc[t] = "returned"
                          /\ result[t].items = items[t]
                          /\ cache_data = Snapshot(ValidItems(items[t]))
                          /\ cache_timestamp >= pre.at
                          /\ load_count = pre.loads + 1

\* C2: rows of the fetch interface's shape (the seven columns of api.py, the
\* three of test_cache_fix.py) are accepted: the call that fetched them loads
\* the cache without raising, and the cache then holds the rows that were
\* fetched, with their fields.
C2_FetchShapeRowsLoad ==
    \A t \in callers :
        ( /\ GetCachedOver(t)
          /\ result[t].path = "miss"
          /\ result[t].exc # "FetchError"
          /\ items[t] # <<>>
          /\ \A i \in 1..Len(items[t]) : Arity(items[t][i]) \in {3, 7} )
        => /\ pc[t] = "returned"
           /\ cache_data.items = ValidItems(items[t])

\* C3: when fetch_function raises, the exception reaches the caller and the
\* cache's data, load timestamp and load count are what they were before the
\* call; a later hit serves the snapshot that was there before the call.
C3_FetchFailureLeavesCache ==
    \A t \in callers :
        /\ result[t].exc # "" => pc[t] = "raised"
        /\ (GetCachedOver(t) /\ result[t].exc = "FetchError") =>
               /\ cache_data = pre.data
               /\ cache_timestamp = pre.timestamp
               /\ load_count = pre.loads
        /\ (GetCachedOver(t) /\ result[t].path = "hit") =>
               result[t].items = pre.data.items

\* a forced refresh whose fetch failed, over a snapshot that is still valid
C3_Witness ==
    \E t \in callers :
        /\ GetCachedOver(t)
        /\ result[t].exc = "FetchError"
        /\ pre.data # NoData
        /\ Fresh(now, pre.timestamp)
        /\ cache_data = pre.data

CompleteSnapshots ==
    { Snapshot(ValidItems(rows)) : rows \in {r \in FetchResults : Unpackable(r)} }

\* C10: while a thread refreshes the cache, what is visible to readers is
\* always a complete snapshot, the previous one or the new one: the shared
\* dict, the list a hit returns and the count get_stats reports each come
\* whole from one load (count = len(items) of that load's rows).
C10_SnapshotsComplete ==
    /\ cache_data # NoData => cache_data \in CompleteSnapshots
    /\ \A t \in Threads :
         pc[t] = "returned" =>
            /\ (result[t].op = "get_cached" /\ result[t].path = "hit") =>
                   \E snap \in CompleteSnapshots : result[t].items = snap.items
            /\ (result[t].op = "get_stats" /\ result[t].stats.status # "empty") =>
                   \E snap \in CompleteSnapshots : result[t].stats.item_count = snap.count

\* a reader got its answer while another thread was in the middle of load(),
\* having replaced the data of an earlier load
C10_Witness ==
    \E t, u \in Threads :
        /\ pc[t] = "load_ts"
        /\ load_count > 0
        /\ pc[u] = "returned"
        /\ \/ result[u].op = "get_cached" /\ result[u].path = "hit"
           \/ result[u].op = "get_stats" /\ result[u].stats.status # "empty"

\* C11: invalidate() never blocks and is never blocked by a concurrent
\* get_cached_menu_items call, the one installing a refreshed snapshot
\* included: a thread about to enter invalidate()'s critical section never
\* finds the lock held by a get call, and a get call about to enter load()'s
\* never finds it held by invalidate().
C11_InvalidateNeverWaits ==
    \A t, u \in Threads :
        /\ (pc[t] = "inv_lock" /\ result[u].op = "get_cached") => lock # u
        /\ (pc[u] = "load_lock" /\ result[t].op = "invalidate") => lock # t

\* C12: get_cache_stats() called right after a get_cached_menu_items call that
\* fetched successfully (within the TTL of that call's start) reports 'valid';
\* called after invalidate_cache(), with no get in between, it reports
\* 'expired', neither 'valid' nor 'empty'.
C12_StatsStatus ==
    \A t \in callers :
        (result[t].op = "get_stats" /\ pc[t] = "returned") =>
            /\ ( /\ pre.last.op = "get_cached"
                 /\ pre.last.path = "miss"
                 /\ pre.last.exc # "FetchError"
                 /\ now - pre.last.at < DefaultTTL )
               => result[t].stats.status = "valid"
            /\ pre.last.op = "invalidate" => result[t].stats.status = "expired"

\* C13: invalidate() changes only the load timestamp: the snapshot (item list
\* and count) and the load count stay as they are, so does every list already
\* handed to a reader; the TTL is not written by any action. Invoked on a
\* cache that is already invalidated it changes nothing at all.
C13_InvalidateFrame ==
    [][ \A t \in Threads :
          (pc[t] = "inv_write" /\ pc'[t] = "returned") =>
              /\ cache_timestamp' = 0
              /\ cache_data' = cache_data
              /\ load_count' = load_count
              /\ \A u \in Threads : result'[u] = result[u] /\ items'[u] = items[u]
              /\ cache_timestamp = 0 =>
                     UNCHANGED <<cache_data, cache_timestamp, load_count>> ]_vars

\* invalidate() has returned over a loaded snapshot whose list a reader holds
C13_Witness ==
    \E t, u \in Threads :
        /\ result[t].op = "invalidate" /\ pc[t] = "returned"
        /\ cache_data # NoData
        /\ cache_timestamp = 0
        /\ load_count > 0
        /\ result[u].path = "hit"
        /\ result[u].items = cache_data.items

\* C14: the TTL is configurable at construction: once MenuItemCache(ttl=T) has
\* been called, the call has returned (not raised) and the cache's TTL, the
\* one is_valid() compares with and get_stats() reports, is T; constructed
\* with no argument (and no set_ttl since) it is 3600.
C14_TtlAtConstruction ==
    /\ (ctor.pc \in {"returned", "raised"} /\ ctor.given) =>
           /\ ctor.pc = "returned"
           /\ ctor.ttl = ctor.ttl_arg
    /\ (ctor.pc = "returned" /\ ~ctor.given /\ ~ctor.set_ttl) => ctor.ttl = DefaultTTL
    /\ ctor.valid # "" =>
           /\ ctor.reported = ctor.ttl
           /\ ctor.valid = "yes" <=> ctor.age < ctor.ttl

\* C15: an empty or all-whitespace query is non-fatal for a loaded matcher:
\* match_single returns an empty match result, get_best_match returns None,
\* and neither raises.
C15_EmptyQueryNonFatal ==
    ( /\ query.pc \in {"returned", "raised"}
      /\ query.q.k = "str"
      /\ Strip(query.q.s) = <<>>
      /\ query.exc # "ValueError" ) =>
        /\ query.pc = "returned"
        /\ query.ret.fuzzy_matches = <<>>
        /\ query.fn = "get_best_match" => query.best = "none"

\* where a candidate's row stands in the matcher's index
CatalogPos(m) ==
    CHOOSE i \in 1..matcher._cache.item_count : matcher._cache.mcode_list[i] = m.mcode

\* C16: for a non-empty query match_single returns at most `limit`
\* candidates, each with score >= score_cutoff, in non-increasing score order,
\* equal scores in catalog order (earlier entry first), ranked 1, 2, ..., n in
\* list order; best_match is the rank-1 candidate, or None for an empty list.
C16_RankedCandidates ==
    (query.pc = "returned" /\ query.fn = "match_single" /\ query.ret.kind = "dict") =>
        LET fm == query.ret.fuzzy_matches IN
        /\ Len(fm) <= query.limit
        /\ \A k \in 1..Len(fm) :
              /\ fm[k].score * 10 >= query.score_cutoff
              /\ fm[k].rank = k
        /\ \A k \in 1..(Len(fm) - 1) :
              /\ fm[k].score >= fm[k + 1].score
              /\ fm[k].score = fm[k + 1].score => CatalogPos(fm[k]) < CatalogPos(fm[k + 1])
        /\ query.ret.best_match = IF fm = <<>> THEN NoMatch ELSE fm[1]

-----------------------------------------------------------------------------
(* Properties of match_ocr_products *)

Items == 1..Len(ocr_products)

\* the loop has finished item i: it is in enhanced_products
Done(i) == \E j \in 1..Len(enhanced_products) : enhanced_products[j] = i

\* item i went to matcher.match_single and came back
Fuzzy(i) == Done(i) /\ seen[i].match_calls = 1

\* product.get('sku', '').strip() is empty for the item as it was given
BlankSku(i) ==
    LET sku == GetSku(given[i]) IN sku.k = "str" /\ Strip(sku.s) = <<>>

C5_OverlayErrorFallsBack ==
    /\ m_pc = "raised" => m_exc \in {"AttributeError", "ValueError"}
    /\ m_pc = "returned" => \A j \in Items : Done(j)
    /\ \A i \in Items :
          seen[i].overlay = "error" =>
              /\ seen[i].match_calls = 0 =>
                     idx = i /\ m_pc = "resolve" /\ mapped_match = NoMatch
              /\ seen[i].match_calls \in {0, 1}
              /\ Done(i) =>
                     /\ seen[i].match_calls = 1
                     /\ ocr_products[i].mapped_nature \in {"New Mapped", "Not Matched"}
                     /\ ocr_products[i].mapped_nature = "New Mapped" <=>
                            ocr_products[i].fuzzy_matches # <<>>

\* the lookup failed for the first of two items, which was then matched, and
\* the second item was processed as well
C5_Witness ==
    /\ m_pc = "returned"
    /\ Len(ocr_products) = 2
    /\ seen[1].overlay = "error"
    /\ seen[1].match_calls = 1
    /\ ocr_products[1].mapped_nature = "New Mapped"
    /\ Done(2)

\* the score recorded for the best candidate of item i, in hundredths
BestScore(i) == ocr_products[i].fuzzy_matches[1].score

C7_EmptySkuUnmatched ==
    \A i \in Items :
        BlankSku(i) =>
            /\ seen[i] = NotSeen
            /\ idx = i => m_pc = "loop"
            /\ idx > i => Done(i)
            /\ Done(i) => /\ ocr_products[i].fuzzy_matches = <<>>
                          /\ ocr_products[i].best_match = NoMatch
                          /\ ocr_products[i].match_confidence = "none"
                          /\ ocr_products[i].mapped_nature = "Not Matched"
                          /\ {"fuzzy_matches", "best_match", "match_confidence",
                              "mapped_nature"} \subseteq ocr_products[i].keys

\* a call that returned after an all-whitespace sku and a missing sku
C7_Witness ==
    /\ m_pc = "returned"
    /\ \E i, j \in Items :
          /\ i < j
          /\ given[i].sku = Str(<<" ">>) /\ Done(i)
          /\ given[j].sku = Absent /\ Done(j)
          /\ ocr_products[j].mapped_nature = "Not Matched"

\* C8: the call returns exactly the input items, as many and in their order,
\* and on every path only the enrichment keys of an item change: its other
\* fields keep the values they were given with.
C8_OnlyEnrichmentKeysChange ==
    /\ Len(ocr_products) = Len(given)
    /\ \A i \in Items :
          /\ ocr_products[i].sku = given[i].sku
          /\ ocr_products[i].quantity = given[i].quantity
          /\ ocr_products[i].keys \subseteq EnrichmentKeys
    /\ \A j \in 1..Len(enhanced_products) : enhanced_products[j] = j
    /\ m_pc = "returned" => Len(enhanced_products) = Len(given)

\* a call that returned two items, one by the empty-sku path and one matched
C8_Witness ==
    /\ m_pc = "returned"
    /\ enhanced_products = <<1, 2>>
    /\ BlankSku(1)
    /\ Fuzzy(2)
    /\ ocr_products[2].mapped_nature = "New Mapped"
    /\ ocr_products[2].sku = given[2].sku

\* C9: a failure while processing one item (a sku that is None or not a
\* string, the matcher raising for the item) does not abort the call: the
\* call never ends by an exception with items left unprocessed.
C9_BadItemDoesNotAbort ==
    ~(m_pc = "raised" /\ \E i \in Items : ~Done(i))

\* C17: after load_menu_items the parallel lists of the index all have length
\* item_count and are aligned: preprocessed_list[i] is preprocess_text of
\* original_list[i], and the fields at i are those of one input row, the rows
\* kept in their order; item_count is the number of input rows with a
\* non-empty description, and no candidate has an empty or missing description.
C17_IndexAligned ==
    m_pc \notin {"off", "start"} =>
        LET c == matcher._cache
            rows == args.menu_items
            n == c.item_count
        IN  /\ n = Cardinality({j \in 1..Len(rows) :
                                  rows[j].desca.k = "str" /\ rows[j].desca.s # <<>>})
            /\ Len(c.preprocessed_list) = n /\ Len(c.original_list) = n
            /\ Len(c.mcode_list) = n /\ Len(c.menucode_list) = n
            /\ Len(c.baseunit_list) = n /\ Len(c.confactor_list) = n
            /\ Len(c.altunit_list) = n /\ Len(c.vat_list) = n
            /\ \E f \in [1..n -> 1..Len(rows)] :
                  /\ \A i, j \in 1..n : i < j => f[i] < f[j]
                  /\ \A i \in 1..n :
                        /\ c.preprocessed_list[i] = preprocess_text(c.original_list[i])
                        /\ c.original_list[i] = rows[f[i]].desca
                        /\ c.mcode_list[i] = rows[f[i]].mcode
                        /\ c.menucode_list[i] = CodeAt(rows[f[i]], 1)
                        /\ c.baseunit_list[i] = CodeAt(rows[f[i]], 2)
                        /\ c.confactor_list[i] = ValueAt(rows[f[i]], 3)
                        /\ c.altunit_list[i] = CodeAt(rows[f[i]], 4)
                        /\ c.vat_list[i] = ValueAt(rows[f[i]], 5)
            /\ \A i \in Items :
                  Fuzzy(i) =>
                      \A k \in 1..Len(ocr_products[i].fuzzy_matches) :
                          LET m == ocr_products[i].fuzzy_matches[k] IN
                          /\ m.desca.k = "str" /\ m.desca.s # <<>>
                          /\ \E j \in 1..Len(rows) :
                                rows[j].desca = m.desca /\ rows[j].mcode = m.mcode

\* an index of two entries built from three rows, and an item matched to both
C17_Witness ==
    /\ m_pc = "returned"
    /\ Len(args.menu_items) = 3
    /\ matcher._cache.item_count = 2
    /\ \E i \in Items : Fuzzy(i) /\ Len(ocr_products[i].fuzzy_matches) = 2

\* C18: preprocess_text is total and idempotent: applied to its own output it
\* returns that output; the output holds only the characters A-Z, 0-9 and
\* single spaces, with no space at either end.
C18_PreprocessIdempotent ==
    /\ prep.pc = "twice" => prep.twice = prep.once
    /\ prep.pc \in {"once", "twice"} =>
          /\ \A i \in 1..Len(prep.once) : prep.once[i] \in {"A", "B", "0", "1", " "}
          /\ \A i \in 1..(Len(prep.once) - 1) :
                ~(prep.once[i] = " " /\ prep.once[i + 1] = " ")
          /\ prep.once # <<>> =>
                prep.once[1] # " " /\ prep.once[Len(prep.once)] # " "

\* a string with a lower-case letter, punctuation and a tab, normalized twice
C18_Witness ==
    /\ prep.pc = "twice"
    /\ prep.s = <<"a", "-", "\t">>
    /\ prep.once = <<"A">>
    /\ prep.twice = <<"A">>

-----------------------------------------------------------------------------
(* Properties of RetryPolicy *)

\* C19: execute_with_retry and execute_with_retry_sync invoke func at most
\* max_retries + 1 times; they stop at the first success; they stop at the
\* first non-retryable error and re-raise it without sleeping; when every
\* attempt fails with a retryable error they raise the last error after
\* exactly max_retries + 1 invocations, with no sleep after the final attempt.
C19_RetryBound ==
    LET log == retry.retry_log
        n == Len(log)
    IN  /\ retry.calls <= retry.max_retries + 1
        /\ retry.sleeps <= retry.max_retries
        /\ \A k \in 1..(n - 1) : log[k].retryable
        /\ retry.pc = "returned" =>
              /\ retry.calls = n + 1
              /\ retry.sleeps = n
              /\ \A k \in 1..n : log[k].retryable
              /\ retry.ret = retry.func_ret /\ retry.ret # ""
        /\ retry.pc = "raised" =>
              /\ retry.calls = n
              /\ n >= 1
              /\ retry.raised = retry.last_error
              /\ log[n].error = retry.raised.msg
              /\ retry.sleeps = n - 1
              /\ log[n].retryable => n = retry.max_retries + 1

\* every one of three attempts failed with a retryable error
C19_Witness ==
    /\ retry.pc = "raised"
    /\ retry.max_retries = 2
    /\ retry.calls = 3
    /\ retry.sleeps = 2
    /\ retry.retry_log[3].retryable

\* C20: is_retryable_error classifies every ValueError and every
\* FileNotFoundError as non-retryable, whatever its message, so that such an
\* error is never retried: it ends the call at the attempt that raised it.
C20_ValueErrorNotRetried ==
    LET log == retry.retry_log
        n == Len(log)
    IN  ( /\ n >= 1
          /\ n = retry.calls
          /\ retry.last_error.type \in {"ValueError", "FileNotFoundError"} )
        => /\ ~log[n].retryable
           /\ retry.pc = "raised"
           /\ retry.sleeps = n - 1

\* C21: the delay calculate_delay returns, and so every wait between two
\* attempts, never exceeds config.max_delay, with jitter enabled or disabled.
C21_DelayCapped == retry.delay <= retry.max_delay

\* C30: whenever execute_with_retry (or the sync variant) finishes, retry_log
\* holds exactly one entry per failed invocation of that execution, numbered
\* 1..k in order, with nothing left from an earlier execution, and retry_count
\* is the number of invocations minus one.
C30_LogPerFailure ==
    retry.pc \in {"returned", "raised"} =>
        /\ Len(retry.retry_log) = retry.failures
        /\ \A k \in 1..Len(retry.retry_log) : retry.retry_log[k].attempt = k
        /\ retry.retry_count = retry.calls - 1
        /\ retry.retry_count = 0 <=> retry.calls = 1

\* an execution that began with an earlier execution's entries in retry_log
\* finished after one failure and one retry
C30_Witness ==
    /\ retry.pc = "returned"
    /\ retry.stale
    /\ retry.failures = 1
    /\ retry.calls = 2
    /\ retry.retry_count = 1

-----------------------------------------------------------------------------
(* Properties of parse_number_safe *)

\* C22: for a string, parse_number_safe returns the value of the first number
\* in it with the commas removed, '.' being the decimal separator: "10.000"
\* gives 10.0, "10,000" gives 10000.0 and "q10.00" gives 10.0.
C22_CommaThousands ==
    (parse.pc = "done" /\ parse.value.k = "str") =>
        /\ NumberToken(parse.value.s) # <<>> =>
              parse.result = TokenValue(NumberToken(parse.value.s))
        /\ parse.value.s = <<"1", "0", ".", "0", "0", "0">> =>
              parse.result = [neg |-> FALSE, whole |-> 10, frac |-> 0]
        /\ parse.value.s = <<"1", "0", ",", "0", "0", "0">> =>
              parse.result = [neg |-> FALSE, whole |-> 10000, frac |-> 0]
        /\ parse.value.s = <<"q", "1", "0", ".", "0", "0">> =>
              parse.result = [neg |-> FALSE, whole |-> 10, frac |-> 0]

-----------------------------------------------------------------------------
(* Further properties of match_ocr_products *)

\* C23: the overlay is keyed by (description, supplier): it is consulted only
\* when a connection is given and the supplier name is non-empty, and it
\* reports a hit for an item only if the table holds a row whose invoice
\* description is the item's and whose invoice supplier is the supplied name;
\* a mapping recorded only under another supplier is a miss, and the item goes
\* to fuzzy matching.
C23_OverlayKeyedBySupplier ==
    \A i \in Items :
        LET keyed == {r \in ocr_mapped.rows :
                         /\ r.InvoiceProductName = Strip(GetSku(given[i]).s)
                         /\ r.InvoiceSupplierName = args.supplier_name}
        IN  /\ seen[i].overlay \in {"hit", "miss", "error"} =>
                  args.connection /\ args.supplier_name # ""
            /\ seen[i].overlay = "hit" => keyed # {}
            /\ (keyed = {} /\ Done(i)) => ocr_products[i].mapped_nature # "Existing"

\* C24: every returned item carries isVAT with value 0 or 1 on every path: 0
\* for an empty-description item and for an item with no best match, and
\* otherwise 1 exactly when the best match's vat denotes true (the integer 1,
\* or one of the strings '1', 'Y', 'y', 'true', 'True').
C24_IsVatOnEveryPath ==
    \A i \in Items :
        Done(i) =>
            LET p == ocr_products[i] IN
            /\ "isVAT" \in p.keys
            /\ p.isVAT \in {0, 1}
            /\ (BlankSku(i) \/ p.best_match = NoMatch) => p.isVAT = 0
            /\ p.best_match # NoMatch =>
                  (p.isVAT = 1 <=>
                      \/ p.best_match.vat = PyInt(1)
                      \/ p.best_match.vat.k = "str" /\ p.best_match.vat.s \in TrueWords)

-----------------------------------------------------------------------------
(* Refresh races of the menu cache *)

\* C26: once invalidate_cache() has returned, every get_cached_menu_items
\* call that starts afterwards returns data from a fetch that started after
\* the invalidation; and of two overlapping refreshes the one whose fetch
\* started earlier does not overwrite the later one's data.
C26_NoStaleAfterInvalidate ==
    /\ \A t \in Threads : ~hist.stale[t]
    /\ ~hist.overwrote

\* C27: under every interleaving of clear() or invalidate() with a concurrent
\* reader, get, get_stats and get_cached_menu_items never raise: no call ends
\* with the TypeError of subscripting the cleared data.
C27_ReadersNeverRaise ==
    \A t \in Threads :
        (pc[t] = "raised" /\ result[t].op \in {"get_cached", "get_stats"}) =>
            result[t].exc \in {"FetchError", "ValueError"}

\* C28: when several get_cached_menu_items calls run concurrently against an
\* empty or expired cache, the fetch function is invoked only once for that
\* expiry: two callers are never both between their own fetch and the load.
C28_SingleFetchPerExpiry ==
    \A t, u \in Threads :
        (t # u /\ ~force_refresh[t] /\ ~force_refresh[u]) =>
            ~(pc[t] = "load_lock" /\ pc[u] = "load_lock"
              /\ fetch_calls[t] = 1 /\ fetch_calls[u] = 1)

-----------------------------------------------------------------------------
(* Properties of TokenManager.log_token_usage *)

\* C29: after any set of log_token_usage calls that all returned success,
\* concurrent ones included, there is exactly one TokenUsageSummary row for
\* the token, its TotalUsedTokens is the sum of TotalTokensUsed over the
\* token's TokenUsageLogs rows, and TotalUsedTokens + TotalRemainingTokens is
\* the limit recorded when the row was created.
C29_SummaryMatchesLogs ==
    ( /\ \A t \in Threads : tokens.pc[t] = "idle"
      /\ ~tokens.failed
      /\ tokens.calls >= 1 )
    => /\ Len(tokens.summary) = 1
       /\ tokens.summary[1].used = tokens.log_total
       /\ tokens.summary[1].used + tokens.summary[1].remaining = tokens.summary[1].limit

====
